---- MODULE Spec2Model ----
(***************************************************************************)
(* Model of the dual-timeline synchronisation component of wcl-vod-review  *)
(* (the extended SuperTimeline of src/unnamed/part_001) together with the  *)
(* host page handlers that consume its callbacks.                          *)
(*                                                                         *)
(* Numbers: JavaScript numbers are modelled as exact rationals <<n, d>>    *)
(* in lowest terms with d > 0 (d = 0 for NaN and the infinities).  The    *)
(* rounding of floating-point arithmetic is not computed.  The model keeps *)
(* track of which stored numbers may differ from their exact value by a    *)
(* rounding error, and where a comparison of the code is decided by such   *)
(* an error (the pointer exactly on the edge of a bar, a time marker       *)
(* exactly on the edge of the canvas) the outcome is either one.           *)
(* One action is one browser event (or one change of props by the host)    *)
(* followed by the React render and the effects it triggers, run until no  *)
(* effect has a changed dependency.                                        *)
(***************************************************************************)
EXTENDS Integers, Sequences, FiniteSets, TLC

\* ------------------------------------------------------------------------
\* Exact rational arithmetic (stands for JavaScript number arithmetic)
\* ------------------------------------------------------------------------
AbsInt(i) == IF i < 0 THEN -i ELSE i

RECURSIVE Gcd(_, _)
Gcd(a, b) == IF b = 0 THEN a ELSE Gcd(b, a % b)

\* Not-a-Number (0/0) and the two infinities (a denominator of 0)
NaN == <<0, 0>>
Infinity == <<1, 0>>
IsNaN(a) == a = NaN
Finite(r) == r[2] # 0

Rat(n, d) ==
  LET s == IF d < 0 THEN -1 ELSE 1
      g == Gcd(AbsInt(n), AbsInt(d))
  IN  IF n = 0 THEN (IF d = 0 THEN NaN ELSE <<0, 1>>)
      ELSE <<(s * n) \div g, (s * d) \div g>>

FromInt(i) == <<i, 1>>
Zero == <<0, 1>>
Neg(a) == <<-a[1], a[2]>>
\* sums and products divide out common factors before multiplying, which
\* keeps the intermediate integers small; a sum with an integer and a product
\* or a comparison of two numbers of one denominator need no common factor
SumOver(a, b, g) == Rat(a[1] * (b[2] \div g) + b[1] * (a[2] \div g), (a[2] \div g) * b[2])
\* a sum with NaN or an infinity in it: Infinity - Infinity is NaN
NonFiniteSum(a, b) ==
  IF IsNaN(a) \/ IsNaN(b) THEN NaN
  ELSE IF Finite(a) THEN b
  ELSE IF Finite(b) \/ a = b THEN a
  ELSE NaN
Plus(a, b) ==
  IF a[2] = 1 /\ b[2] # 0 THEN <<a[1] * b[2] + b[1], b[2]>>
  ELSE IF b[2] = 1 /\ a[2] # 0 THEN <<a[1] + b[1] * a[2], a[2]>>
  ELSE IF a[2] # 0 /\ b[2] # 0 THEN SumOver(a, b, Gcd(a[2], b[2]))
  ELSE NonFiniteSum(a, b)
Minus(a, b) == Plus(a, Neg(b))
ProductOver(a, b, g1, g2) ==
  IF a[1] = 0 \/ b[1] = 0 THEN <<0, 1>>
  ELSE <<(a[1] \div g1) * (b[1] \div g2), (a[2] \div g2) * (b[2] \div g1)>>
\* a product with NaN or an infinity in it: 0 * Infinity is NaN
Sign(i) == IF i < 0 THEN -1 ELSE IF i > 0 THEN 1 ELSE 0
NonFiniteProduct(a, b) ==
  IF IsNaN(a) \/ IsNaN(b) \/ a[1] = 0 \/ b[1] = 0 THEN NaN
  ELSE <<Sign(a[1]) * Sign(b[1]), 0>>
Times(a, b) ==
  IF a[2] = 1 /\ b[2] = 1 THEN <<a[1] * b[1], 1>>
  ELSE IF a[2] # 0 /\ b[2] # 0
  THEN ProductOver(a, b, Gcd(AbsInt(a[1]), b[2]), Gcd(AbsInt(b[1]), a[2]))
  ELSE NonFiniteProduct(a, b)
\* 1 / b (1 / 0 is Infinity, 1 / Infinity is 0)
Inverse(b) ==
  IF IsNaN(b) THEN NaN
  ELSE IF ~Finite(b) THEN Zero
  ELSE IF b[1] = 0 THEN Infinity
  ELSE IF b[1] < 0 THEN <<-b[2], -b[1]>> ELSE <<b[2], b[1]>>
Over(a, b) == Times(a, Inverse(b))
\* a <= b and a < b; a comparison with NaN is false
LeqOver(a, b, g) == a[1] * (b[2] \div g) <= b[1] * (a[2] \div g)
NonFiniteLeq(a, b) ==
  /\ ~IsNaN(a) /\ ~IsNaN(b)
  /\ a = b \/ (~Finite(a) /\ a[1] < 0) \/ (~Finite(b) /\ b[1] > 0)
Leq(a, b) ==
  IF a[2] = b[2] /\ a[2] # 0 THEN a[1] <= b[1]
  ELSE IF a[2] # 0 /\ b[2] # 0 THEN LeqOver(a, b, Gcd(a[2], b[2])) ELSE NonFiniteLeq(a, b)
Less(a, b) == Leq(a, b) /\ a # b
\* Math.max and Math.min: NaN when an argument is NaN (the only numbers that
\* compare false both ways)
RMax(a, b) == IF Leq(a, b) THEN b ELSE IF Leq(b, a) THEN a ELSE NaN
RMin(a, b) == IF Leq(a, b) THEN a ELSE IF Leq(b, a) THEN b ELSE NaN
RAbs(a) == <<AbsInt(a[1]), a[2]>>
\* a number a double holds exactly: a finite one whose denominator is a power
\* of two
RECURSIVE PowerOfTwo(_)
PowerOfTwo(n) == n = 1 \/ (n % 2 = 0 /\ PowerOfTwo(n \div 2))
Dyadic(r) == Finite(r) /\ PowerOfTwo(r[2])

\* ------------------------------------------------------------------------
\* Program constants (src/unnamed/part_001:39-50)
\* ------------------------------------------------------------------------
SYNC_ROW_HEIGHT == 30
FIGHT_ROW_HEIGHT == 40
EVENT_ROW_HEIGHT == 40
SYNC_ROWS == 2
FIGHT_ROWS == 1
EVENT_ROWS == 2
TIMELINE_HEIGHT == SYNC_ROW_HEIGHT * SYNC_ROWS + FIGHT_ROW_HEIGHT * FIGHT_ROWS + EVENT_ROW_HEIGHT * EVENT_ROWS
PADDING_TOP == 60
PADDING_BOTTOM == 20
MIN_ZOOM == <<1, 10>>
MAX_ZOOM == <<50, 1>>
EDGE_PADDING_SEC == 60
dayInSeconds == 24 * 60 * 60

\* ------------------------------------------------------------------------
\* Bounds and input sets of the model
\* ------------------------------------------------------------------------
MaxMoves == 1
MaxWheels == 1
\* wheel notches in the exploration of the view alone, and pointer moves in
\* the exploration of the drags alone
MaxViewWheels == 3
MaxDragMoves == 2

\* container.clientWidth values (the viewport)
Widths == {760}

\* Report wall-clock start (ms); a small stand-in for an epoch timestamp
ReportStart == 200000 * 1000
ReportLengthMs == 600 * 1000

\* Video metadata the host may hand in: <<videoStartTime (ms), videoDuration (s)>>.
\* 0 is "unknown".  The known start times lie 10 s after the report start,
\* and a second less and a second more than one day before it.
VideoMetas ==
  { <<0, 0>>, <<0, 400>>,
    <<ReportStart - 86399 * 1000, 400>>,
    <<ReportStart - 86401 * 1000, 400>>,
    <<ReportStart + 10 * 1000, 400>>,
    <<ReportStart + 10 * 1000, 0>> }

\* fights prop: times in ms relative to the report start, in dataset order
Fights ==
  << [id |-> 1, startTime |-> 60000, endTime |-> 180000],
     [id |-> 2, startTime |-> 238000, endTime |-> 358000],
     [id |-> 3, startTime |-> 500000, endTime |-> 500000],
     [id |-> 4, startTime |-> 300000, endTime |-> 358000] >>

\* the events the server holds for a fight (timestamps in ms from the report
\* start)
EventsOf(fid) ==
  IF fid = 1 THEN << [timestamp |-> 90000, type |-> "Casts"],
                     [timestamp |-> 120000, type |-> "Deaths"] >>
  ELSE IF fid = 2 THEN << [timestamp |-> 305000, type |-> "Deaths"],
                          [timestamp |-> 305500, type |-> "Deaths"] >>
  ELSE << >>
\* the outcome of a request for the events of a fight: an answer with events,
\* an answer without an events field, or a failure (the request is rejected
\* or the answer is not ok)
EventAnswers == {"events", "none", "failed"}
\* requests for events that may be in flight at a time
MaxEventRequests == 2

\* pointer positions <<clientX, clientY>> (container at the page origin)
\* mousedown: on the video row, the WCL row, the fights row, the events rows
CanvasPoints == { <<400, 75>>, <<400, 105>>, <<400, 140>>, <<400, 220>> }
\* mousemove and mouseup: over the canvas, and below it
MovePoints == { <<400, 105>>, <<410, 105>>, <<410, 300>> }
UpPoints == { <<400, 105>>, <<410, 300>> }
WheelXs == {400}
PlaybackTimes == {0, 315}

\* the exploration of the view alone: viewports, report lengths (ms),
\* mousedown positions in the fights row and wheel positions
ViewWidths == {720, 760, 800, 7000}
ViewReportLengthsMs == {10 * 1000, 240 * 1000, 600 * 1000, 1320 * 1000, 7200 * 1000}
ViewPoints == { <<150, 140>>, <<400, 140>>, <<560, 140>> }
ViewWheelXs == {0, 400}

\* ------------------------------------------------------------------------
\* State
\* ------------------------------------------------------------------------
VARIABLES
  mounted,          \* the component is mounted
  clientWidth,      \* containerRef.current.clientWidth
  \* props
  reportStartTime, reportEndTime, selectedFightId, events, currentVideoTime,
  offset, videoDuration, videoStartTime,
  \* the host's requests for events that are not answered yet (fight ids, in
  \* the order they were sent)
  eventRequests,
  \* useState
  zoom, panOffset, isDragging, dragStart, hoveredFight,
  videoOffsetSec, wclOffsetSec, isLocked, isDraggingSync, autoSynced,
  \* the numbers of the state ("zoom", "panOffset", "videoOffsetSec",
  \* "wclOffsetSec", "dragStart") that were computed from a rounded number
  rounded,
  \* the props and state the last draw() painted, and the document listeners the drag
  \* effects have registered
  drawn, listeners,
  \* the callbacks the last step invoked, in order
  offsetCalls, seekCalls, fightSelectCalls,
  \* host pages of the simple Timeline (part_003 / part_004): the offset state,
  \* the seek requests of the last step, and the page itself (URL parameters,
  \* loading / error / report state, the loadReport runs awaiting an answer)
  pageOffset, pageSeekCalls, pg,
  \* the video player of the host page: VideoPlayer, its YouTubePlayer or
  \* TwitchPlayer child, the backend instances and the interval timers
  vp,
  \* the TimelineAligner of the host page (TimelineAligner.tsx)
  al,
  \* the Blizzard API client of the backend (backend/src/lib/blizzard.ts) with
  \* its collections and the clock
  bz,
  \* counters that bound the exploration
  nMoves, nWheels

vars == << mounted, clientWidth, reportStartTime, reportEndTime, selectedFightId,
           events, currentVideoTime, offset, videoDuration, videoStartTime,
           eventRequests,
           zoom, panOffset, isDragging, dragStart, hoveredFight,
           videoOffsetSec, wclOffsetSec, isLocked, isDraggingSync, autoSynced,
           rounded, drawn, listeners,
           offsetCalls, seekCalls, fightSelectCalls,
           pageOffset, pageSeekCalls, pg, vp, al, bz, nMoves, nWheels >>

\* The component as one record: props, state and the callbacks invoked so far
Cur ==
  [ clientWidth |-> clientWidth,
    reportStartTime |-> reportStartTime, reportEndTime |-> reportEndTime,
    selectedFightId |-> selectedFightId, events |-> events,
    currentVideoTime |-> currentVideoTime, offset |-> offset,
    videoDuration |-> videoDuration, videoStartTime |-> videoStartTime,
    eventRequests |-> eventRequests,
    zoom |-> zoom, panOffset |-> panOffset, isDragging |-> isDragging,
    dragStart |-> dragStart, hoveredFight |-> hoveredFight,
    drawn |-> drawn, listeners |-> listeners,
    videoOffsetSec |-> videoOffsetSec, wclOffsetSec |-> wclOffsetSec,
    isLocked |-> isLocked, isDraggingSync |-> isDraggingSync,
    autoSynced |-> autoSynced, rounded |-> rounded,
    offsetCalls |-> << >>, seekCalls |-> << >>, fightSelectCalls |-> << >> ]

BecomeValue(r) ==
  /\ clientWidth' = r.clientWidth
  /\ reportStartTime' = r.reportStartTime /\ reportEndTime' = r.reportEndTime
  /\ selectedFightId' = r.selectedFightId /\ events' = r.events
  /\ currentVideoTime' = r.currentVideoTime /\ offset' = r.offset
  /\ videoDuration' = r.videoDuration /\ videoStartTime' = r.videoStartTime
  /\ eventRequests' = r.eventRequests
  /\ zoom' = r.zoom /\ panOffset' = r.panOffset /\ isDragging' = r.isDragging
  /\ dragStart' = r.dragStart /\ hoveredFight' = r.hoveredFight
  /\ drawn' = r.drawn /\ listeners' = r.listeners
  /\ videoOffsetSec' = r.videoOffsetSec /\ wclOffsetSec' = r.wclOffsetSec
  /\ isLocked' = r.isLocked /\ isDraggingSync' = r.isDraggingSync
  /\ autoSynced' = r.autoSynced /\ rounded' = r.rounded
  /\ offsetCalls' = r.offsetCalls /\ seekCalls' = r.seekCalls
  /\ fightSelectCalls' = r.fightSelectCalls

\* the next state is the (fully evaluated) record e
Become(e) == \E r \in {e} : BecomeValue(r)

\* ------------------------------------------------------------------------
\* Derived values and the time-domain mapper
\* ------------------------------------------------------------------------
reportDuration(c) == Rat(c.reportEndTime - c.reportStartTime, 1000)
videoDurationSec(c) == FromInt(c.videoDuration)

timeToX(c, timeInSeconds) == Minus(Times(timeInSeconds, c.zoom), c.panOffset)
\* (first a variant with the pan subtracted)
xToTimeMinusPan(c, x) == Over(Minus(x, c.panOffset), c.zoom)
xToTime(c, x) == Over(Plus(x, c.panOffset), c.zoom)

\* ------------------------------------------------------------------------
\* Rounding
\* ------------------------------------------------------------------------
\* A number of the state is rounded when the double the code holds may differ
\* from the exact value of the model: the exact value is not a double, or the
\* number was computed from a rounded one (its name is in c.rounded).
Rounded(c, name) == name \in c.rounded \/ ~Dyadic(c[name])
DragStartRounded(c) == "dragStart" \in c.rounded \/ ~Dyadic(c.dragStart.panOffset)
ViewRounded(c) == Rounded(c, "zoom") \/ Rounded(c, "panOffset")
\* the number called name has been assigned in a: from rounded operands
\* (inexact) or not
Mark(a, name, inexact) ==
  [a EXCEPT !.rounded = IF inexact THEN @ \cup {name} ELSE @ \ {name}]

\* a <= b as the code decides it: when the exact values are equal and one of
\* them is rounded (doubt), the doubles differ either way or not at all, and
\* s is the sign of the difference (the double of a less the double of b)
Signs == {-1, 0, 1}
SignsIf(edge) == IF edge THEN Signs ELSE {0}
LeqAs(a, b, doubt, s) == IF a = b /\ Finite(a) /\ doubt THEN s <= 0 ELSE Leq(a, b)
LessAs(a, b, doubt, s) == IF a = b /\ Finite(a) /\ doubt THEN s < 0 ELSE Less(a, b)

\* a canvas draw() has not run on
NoDraw == [clientWidth |-> 0]

\* props and state of a record, without the callback log, the canvas, the
\* document listeners and the host's requests (none of which is React state
\* of the component)
Rendered(c) ==
  [c EXCEPT !.offsetCalls = << >>, !.seekCalls = << >>, !.fightSelectCalls = << >>,
            !.drawn = NoDraw, !.listeners = {}, !.eventRequests = << >>]

\* fights.find((f) => f.id === selectedFightId)
NoFight == [id |-> 0, startTime |-> 0, endTime |-> 0]
\* the first match in dataset order is the one with the least index (first
\* a variant that takes the last match)
MaxOf(S) == CHOOSE m \in S : \A k \in S : k <= m
MinOf(S) == CHOOSE m \in S : \A k \in S : m <= k
FirstFight(hits) == IF hits = {} THEN NoFight ELSE Fights[MinOf(hits)]
FindFight(fid) == FirstFight({i \in 1..Len(Fights) : Fights[i].id = fid})

\* ------------------------------------------------------------------------
\* Host callbacks
\* ------------------------------------------------------------------------
\* onOffsetChange(v): the host stores v and passes it back as the offset prop
OnOffsetChange(a, v) ==
  [a EXCEPT !.offset = v, !.offsetCalls = Append(@, v)]

\* setSelectedFight(fight): the host makes the fight the selected one.  The
\* effect that loads the events is keyed on the fight object: it sends a
\* request for the events of the fight when the object is another one than
\* before, which is a fight of another id or (reloaded) the fight of a report
\* that was loaded anew, whatever its id; it sends none while no fight is
\* selected.  The events stay what they are until an answer arrives.
SelectFight(a, fid, reloaded) ==
  [a EXCEPT !.selectedFightId = fid,
            !.eventRequests =
               IF fid # 0 /\ (reloaded \/ fid # a.selectedFightId) THEN Append(@, fid) ELSE @]
\* onFightSelect(id): the host looks the fight up in the report it holds
OnFightSelect(a, fid) ==
  [SelectFight(a, fid, FALSE) EXCEPT !.fightSelectCalls = Append(@, fid)]

\* the request at position i is answered: setEvents(data.events || []), and
\* setEvents([]) in the catch block; no answer is discarded, whichever fight
\* is selected by then
EventsAnswered(fid, answer) == IF answer = "events" THEN EventsOf(fid) ELSE << >>
WithoutRequest(reqs, i) == [k \in 1..(Len(reqs) - 1) |-> IF k < i THEN reqs[k] ELSE reqs[k + 1]]
LoadEvents(a, i, answer) ==
  [a EXCEPT !.events = EventsAnswered(a.eventRequests[i], answer),
            !.eventRequests = WithoutRequest(@, i)]

\* onTimelineClick(videoTime): the host receives the seek request; the step's
\* record of it keeps the clicked event's log time and the offset prop in force
OnTimelineClick(a, eventTimeSec, off, videoTime) ==
  [a EXCEPT !.seekCalls =
      Append(@, [logTime |-> eventTimeSec, offset |-> off, videoTime |-> videoTime])]

\* ------------------------------------------------------------------------
\* Effects.  c is the render the effect closes over, a the state with the
\* updates queued so far in this commit.
\* ------------------------------------------------------------------------
containerWidth(c) == FromInt(c.clientWidth - 40)

\* Initialize sync offsets and auto-sync
timeDiffSeconds(c) == Rat(c.reportStartTime - c.videoStartTime, 1000)
\* the timestamps are close enough to auto-align (first a variant with the
\* threshold doubled)
WithinTwoDays(diff) == Less(RAbs(diff), FromInt(2 * dayInSeconds))
WithinSameDay(diff) == Less(RAbs(diff), FromInt(dayInSeconds))
\* the video bar placed before the WCL bar with a gap
PlaceBefore(c, a) ==
  Mark([a EXCEPT !.videoOffsetSec = Minus(Neg(videoDurationSec(c)), FromInt(60))],
       "videoOffsetSec", FALSE)
AutoAlign(a, diff) ==
  OnOffsetChange(Mark([a EXCEPT !.videoOffsetSec = diff, !.isLocked = TRUE,
                                !.autoSynced = TRUE],
                      "videoOffsetSec", FALSE),
                 diff)
\* the condition of the auto-sync branch of the effect
CanAutoSync(c) == c.videoStartTime # 0 /\ c.reportStartTime # 0 /\ c.videoDuration > 0
InitSyncFrom(c, a0) ==
  IF CanAutoSync(c)
  THEN IF WithinSameDay(timeDiffSeconds(c))
       THEN AutoAlign(a0, timeDiffSeconds(c))
       ELSE PlaceBefore(c, a0)
  ELSE IF c.videoDuration > 0 THEN PlaceBefore(c, a0) ELSE a0
InitSyncEffect(c, a) ==
  InitSyncFrom(c, Mark([a EXCEPT !.wclOffsetSec = Zero], "wclOffsetSec", FALSE))
InitSyncDeps(c) == <<c.videoStartTime, c.reportStartTime, c.videoDuration>>

\* Update offset when sync positions change
LockedOffsetEffect(c, a) ==
  IF c.isLocked
  THEN OnOffsetChange(a, Minus(c.videoOffsetSec, c.wclOffsetSec))
  ELSE a
LockedOffsetDeps(c) == <<c.videoOffsetSec, c.wclOffsetSec, c.isLocked>>

\* Initialize zoom to fit entire report in view with edge padding
totalDurationWithPadding(c) == Plus(reportDuration(c), FromInt(EDGE_PADDING_SEC * 2))
\* (first a variant that fits the report without the edge padding, as in the
\* simple SuperTimeline)
initialZoomOfReport(c) ==
  RMax(MIN_ZOOM, RMin(Over(containerWidth(c), reportDuration(c)), MAX_ZOOM))
initialZoom(c) ==
  RMax(MIN_ZOOM, RMin(Over(containerWidth(c), totalDurationWithPadding(c)), MAX_ZOOM))
FitTo(a, z) == [a EXCEPT !.zoom = z, !.panOffset = Times(FromInt(-EDGE_PADDING_SEC), z)]
\* the zoom is one division (exact when its operands and its result are), the
\* pan a multiple of the zoom
ZoomMarked(a, inexact) == Mark(a, "zoom", inexact)
PanMarked(a, inexact) == Mark(a, "panOffset", inexact \/ Rounded(a, "zoom"))
FitMarked(c, a) ==
  PanMarked(ZoomMarked(a, ~Dyadic(totalDurationWithPadding(c))), FALSE)
InitialFitEffect(c, a) == FitMarked(c, FitTo(a, initialZoom(c)))
InitialFitDeps(c) == <<reportDuration(c)>>

\* Auto-zoom when fight is selected.  A zero fight duration makes
\* containerWidth / fightDuration Infinity (zoom MAX_ZOOM) for a container
\* wider than 40 px, -Infinity (zoom MIN_ZOOM) for a narrower one and NaN
\* (zoom NaN, and with it the pan) for one of 40 px.  (First a variant that
\* fits the fight to the whole viewport.)
FightZoomOfViewport(c, fightDuration) ==
  RMax(MIN_ZOOM, RMin(Over(FromInt(c.clientWidth), fightDuration), MAX_ZOOM))
FightZoom(c, fightDuration) ==
  RMax(MIN_ZOOM, RMin(Over(containerWidth(c), fightDuration), MAX_ZOOM))
FightCenterOffset(c, fightStartOffset, fightDuration, newZoom) ==
  Plus(Minus(Times(Plus(fightStartOffset, c.wclOffsetSec), newZoom),
             Over(containerWidth(c), FromInt(2))),
       Over(Times(fightDuration, newZoom), FromInt(2)))
\* (first a variant that moves the pan by the centre offset instead of
\* setting it)
ZoomToFightRelative(c, a, fightStartOffset, fightDuration) ==
  [a EXCEPT !.zoom = FightZoom(c, fightDuration),
            !.panOffset = Plus(c.panOffset,
                               FightCenterOffset(c, fightStartOffset, fightDuration,
                                                 FightZoom(c, fightDuration)))]
ZoomToFight(c, a, fightStartOffset, fightDuration) ==
  [a EXCEPT !.zoom = FightZoom(c, fightDuration),
            !.panOffset = FightCenterOffset(c, fightStartOffset, fightDuration,
                                            FightZoom(c, fightDuration))]
\* the zoom is one division, the pan is computed from the zoom, the fight's
\* times and the WCL anchor of the render
FightMarked(c, a, fightStartOffset, fightDuration) ==
  PanMarked(ZoomMarked(a, ~Dyadic(fightDuration)),
            Rounded(c, "wclOffsetSec") \/ ~Dyadic(fightStartOffset) \/ ~Dyadic(fightDuration))
AutoZoomTo(c, a, selectedFight) ==
  IF c.selectedFightId # 0 /\ selectedFight.id # 0
  THEN FightMarked(c, ZoomToFight(c, a, Rat(selectedFight.startTime, 1000),
                                  Rat(selectedFight.endTime - selectedFight.startTime, 1000)),
                   Rat(selectedFight.startTime, 1000),
                   Rat(selectedFight.endTime - selectedFight.startTime, 1000))
  ELSE a
AutoZoomEffect(c, a) == AutoZoomTo(c, a, FindFight(c.selectedFightId))
AutoZoomDeps(c) == <<c.selectedFightId, c.wclOffsetSec>>

\* Update parent when offsets change (after dragging stops); first a variant
\* that reports only while Locked
DragStopEffectWhenLocked(c, a) ==
  IF c.isDraggingSync = "none" /\ c.isLocked
  THEN OnOffsetChange(a, Minus(c.videoOffsetSec, c.wclOffsetSec))
  ELSE a
\* (and a variant that reports the video anchor alone)
DragStopEffectOfVideoAnchor(c, a) ==
  IF c.isDraggingSync = "none"
  THEN OnOffsetChange(a, c.videoOffsetSec)
  ELSE a
DragStopEffect(c, a) ==
  IF c.isDraggingSync = "none"
  THEN OnOffsetChange(a, Minus(c.videoOffsetSec, c.wclOffsetSec))
  ELSE a
DragStopDeps(c) == <<c.videoOffsetSec, c.wclOffsetSec, c.isDraggingSync>>

\* ------------------------------------------------------------------------
\* Hit-testing
\* ------------------------------------------------------------------------
\* fights.find(...) of a pointer x in the Fights row: the first fight, in
\* dataset order, whose [start, end] (shifted by the WCL anchor) holds the
\* time under x; 0 when there is none.  s is the sign of the rounding error
\* of the time under x against a bound of a fight it equals exactly.
fightStartSec(c, f) == Plus(Rat(f.startTime, 1000), c.wclOffsetSec)
fightEndSec(c, f) == Plus(Rat(f.endTime, 1000), c.wclOffsetSec)
\* the sum of a time of the dataset and the WCL anchor is rounded
ShiftRounded(c, t) ==
  Rounded(c, "wclOffsetSec") \/ (~Dyadic(t) /\ c.wclOffsetSec # Zero)
FightDoubt(c, f) ==
  \/ ViewRounded(c)
  \/ ShiftRounded(c, Rat(f.startTime, 1000)) \/ ShiftRounded(c, Rat(f.endTime, 1000))
TimeInFight(c, f, t, s) ==
  /\ LeqAs(fightStartSec(c, f), t, FightDoubt(c, f), -s)
  /\ LeqAs(t, fightEndSec(c, f), FightDoubt(c, f), s)
FightAtTime(c, t, s) ==
  FirstFight({i \in 1..Len(Fights) : TimeInFight(c, Fights[i], t, s)}).id
FightAt(c, x, s) == FightAtTime(c, xToTime(c, FromInt(x)), s)

eventRowY(ev) ==
  IF ev.type = "Casts"
  THEN PADDING_TOP + SYNC_ROW_HEIGHT * 2 + FIGHT_ROW_HEIGHT + 10
  ELSE PADDING_TOP + SYNC_ROW_HEIGHT * 2 + FIGHT_ROW_HEIGHT + EVENT_ROW_HEIGHT + 10

\* distance <= 6 between the pointer and the marker of event ev (neither
\* coordinate differs by more than 6, which is tested before squaring).  The
\* pointer is at the height of the marker and exactly 6 px beside it while the
\* marker's x is rounded: s is the sign of the rounding error of the distance.
Square(r) == Times(r, r)
eventX(c, ev) == timeToX(c, Plus(Rat(ev.timestamp, 1000), c.wclOffsetSec))
EventDoubt(c, ev) ==
  ViewRounded(c) \/ Rounded(c, "wclOffsetSec") \/ ~Dyadic(Rat(ev.timestamp, 1000))
OnEventEdge(c, ev, x, y) ==
  /\ y = eventRowY(ev) + 10
  /\ RAbs(Minus(FromInt(x), eventX(c, ev))) = FromInt(6)
  /\ EventDoubt(c, ev)
WithinRadius(c, ev, x, y) ==
  /\ AbsInt(y - (eventRowY(ev) + 10)) <= 6
  /\ Leq(RAbs(Minus(FromInt(x), eventX(c, ev))), FromInt(6))
  /\ Leq(Plus(Square(Minus(FromInt(x), eventX(c, ev))),
              Square(FromInt(y - (eventRowY(ev) + 10)))),
         FromInt(6 * 6))
NearEvent(c, ev, x, y, s) ==
  IF OnEventEdge(c, ev, x, y) THEN s <= 0 ELSE WithinRadius(c, ev, x, y)

\* index of the first event of c.events near the pointer, 0 when none; g[i]
\* is the sign of the rounding error for event i
FirstIndex(hits) == IF hits = {} THEN 0 ELSE MinOf(hits)
EventAt(c, x, y, g) ==
  FirstIndex({i \in 1..Len(c.events) : NearEvent(c, c.events[i], x, y, g[i])})

InFightsRow(y) ==
  /\ y >= PADDING_TOP + SYNC_ROW_HEIGHT * 2
  /\ y <= PADDING_TOP + SYNC_ROW_HEIGHT * 2 + FIGHT_ROW_HEIGHT

\* the pointer is on a sync bar; s is the sign of the rounding error of the
\* edge of the bar the pointer is exactly on
VideoDoubt(c) ==
  ViewRounded(c) \/ Rounded(c, "videoOffsetSec") \/ ~Dyadic(videoDurationSec(c))
OnVideoBar(c, x, y, s) ==
  /\ y >= PADDING_TOP /\ y <= PADDING_TOP + SYNC_ROW_HEIGHT
  /\ LeqAs(timeToX(c, c.videoOffsetSec), FromInt(x), VideoDoubt(c), s)
  /\ LeqAs(FromInt(x),
           Plus(timeToX(c, c.videoOffsetSec), Times(videoDurationSec(c), c.zoom)),
           VideoDoubt(c), -s)

WclDoubt(c) ==
  ViewRounded(c) \/ Rounded(c, "wclOffsetSec") \/ ~Dyadic(reportDuration(c))
OnWclBar(c, x, y, s) ==
  /\ y >= PADDING_TOP + SYNC_ROW_HEIGHT /\ y <= PADDING_TOP + SYNC_ROW_HEIGHT * 2
  /\ LeqAs(timeToX(c, c.wclOffsetSec), FromInt(x), WclDoubt(c), s)
  /\ LeqAs(FromInt(x),
           Plus(timeToX(c, c.wclOffsetSec), Times(reportDuration(c), c.zoom)),
           WclDoubt(c), -s)

\* The rounding errors that decide the comparisons of a pointer event at
\* <<x, y>>: one sign for each of the video bar, the WCL bar and the time
\* under the pointer, and one for each event.  A sign other than 0 is there
\* only for a comparison of two equal exact values of which one is rounded.
OnFightEdge(c, x, y) ==
  /\ InFightsRow(y)
  /\ \E i \in 1..Len(Fights) :
        /\ FightDoubt(c, Fights[i])
        /\ xToTime(c, FromInt(x)) \in {fightStartSec(c, Fights[i]), fightEndSec(c, Fights[i])}
OnVideoEdge(c, x, y) ==
  /\ y >= PADDING_TOP /\ y <= PADDING_TOP + SYNC_ROW_HEIGHT
  /\ VideoDoubt(c)
  /\ FromInt(x) \in {timeToX(c, c.videoOffsetSec),
                      Plus(timeToX(c, c.videoOffsetSec), Times(videoDurationSec(c), c.zoom))}
OnWclEdge(c, x, y) ==
  /\ y >= PADDING_TOP + SYNC_ROW_HEIGHT /\ y <= PADDING_TOP + SYNC_ROW_HEIGHT * 2
  /\ WclDoubt(c)
  /\ FromInt(x) \in {timeToX(c, c.wclOffsetSec),
                      Plus(timeToX(c, c.wclOffsetSec), Times(reportDuration(c), c.zoom))}
\* the events whose marker the pointer is exactly on the edge of
EventsOnEdge(c, x, y) == {i \in 1..Len(c.events) : OnEventEdge(c, c.events[i], x, y)}
EventSigns(c, x, y) ==
  IF EventsOnEdge(c, x, y) = {} THEN { [i \in 1..Len(c.events) |-> 0] }
  ELSE { g \in [1..Len(c.events) -> Signs] :
           \A i \in 1..Len(c.events) : i \notin EventsOnEdge(c, x, y) => g[i] = 0 }
Roundings(c, x, y) ==
  { [video |-> v, wcl |-> w, fight |-> f, event |-> g] :
      v \in SignsIf(OnVideoEdge(c, x, y)), w \in SignsIf(OnWclEdge(c, x, y)),
      f \in SignsIf(OnFightEdge(c, x, y)), g \in EventSigns(c, x, y) }

\* Current time indicator: the WCL time the playback time t maps to under the
\* offset prop (first a variant with the opposite sign), and the x coordinate
\* the indicator is drawn at
wclTimeAtMinus(t, off) == Minus(t, off)
wclTimeAt(t, off) == Plus(t, off)
indicatorX(c, t) == timeToX(c, Plus(wclTimeAt(t, c.offset), c.wclOffsetSec))

\* the pointer is over the canvas element
OverCanvas(c, x, y) ==
  /\ x >= 0 /\ x <= c.clientWidth
  /\ y >= 0 /\ y <= PADDING_TOP + TIMELINE_HEIGHT + PADDING_BOTTOM

\* ------------------------------------------------------------------------
\* Event handlers.  Each returns the state with the handler's updates queued.
\* ------------------------------------------------------------------------
\* the seek time of a clicked event: WCL time minus the offset prop (first a
\* variant with the opposite sign)
SeekTimeOfPlus(eventTimeSec, off) == Plus(eventTimeSec, off)
SeekTimeOf(eventTimeSec, off) == Minus(eventTimeSec, off)

\* dragStart holds a copy of the pan
DragStartMarked(c, a) == Mark(a, "dragStart", "panOffset" \in c.rounded)
StartSyncDrag(c, which, x) ==
  DragStartMarked(c, [c EXCEPT !.isDraggingSync = which,
                               !.dragStart = [x |-> x, panOffset |-> c.panOffset]])

StartPanDrag(c, x) ==
  DragStartMarked(c, [c EXCEPT !.isDragging = TRUE,
                               !.dragStart = [x |-> x, panOffset |-> c.panOffset]])

SeekTo(c, eventTimeSec) ==
  OnTimelineClick(c, eventTimeSec, c.offset, SeekTimeOf(eventTimeSec, c.offset))
ClickEvent(c, i) == SeekTo(c, Rat(c.events[i].timestamp, 1000))

\* whether the sync bars are hit-tested at all
SyncBarsEnabled(c) == ~c.isLocked

\* the event branch and the pan-drag fallback; i is the event hit (0: none)
DownOnEvent(c, x, i) == IF i # 0 THEN ClickEvent(c, i) ELSE StartPanDrag(c, x)
EventsClickable(c) ==
  c.selectedFightId # 0 /\ Len(c.events) > 0 /\ FindFight(c.selectedFightId).id # 0
\* the fight branch; clickedFight is the fight hit (0: none)
DownOnFight(c, x, y, clickedFight, g) ==
  IF clickedFight # 0 THEN OnFightSelect(c, clickedFight)
  ELSE DownOnEvent(c, x, IF EventsClickable(c) THEN EventAt(c, x, y, g) ELSE 0)
\* e is one of Roundings(c, x, y)
handleMouseDown(c, x, y, e) ==
  IF SyncBarsEnabled(c) /\ OnVideoBar(c, x, y, e.video) THEN StartSyncDrag(c, "video", x)
  ELSE IF SyncBarsEnabled(c) /\ OnWclBar(c, x, y, e.wcl) THEN StartSyncDrag(c, "wcl", x)
  ELSE DownOnFight(c, x, y, IF InFightsRow(y) THEN FightAt(c, x, e.fight) ELSE 0, e.event)

\* canvas onMouseMove: hover state, then the drag in progress.  The sync-bar
\* branch sets the anchor to a value computed from the rendered anchor.
deltaTime(c, x) == Over(FromInt(x - c.dragStart.x), c.zoom)
Restart(c, x) == [x |-> x, panOffset |-> c.dragStart.panOffset]
\* setHoveredFight(hovered || null): the fight under the pointer (0: none)
HoverAt(c, a, x, y, s) ==
  [a EXCEPT !.hoveredFight = IF InFightsRow(y) THEN FightAt(c, x, s) ELSE 0]
\* deltaX / zoom is rounded when the zoom or the quotient is
DeltaRounded(c, x) == Rounded(c, "zoom") \/ ~Dyadic(deltaTime(c, x))
DragAt(c, a, x, y) ==
  IF c.isDraggingSync = "video"
  THEN Mark([a EXCEPT !.videoOffsetSec = Plus(c.videoOffsetSec, deltaTime(c, x)),
                      !.dragStart = Restart(c, x)],
            "videoOffsetSec", Rounded(c, "videoOffsetSec") \/ DeltaRounded(c, x))
  ELSE IF c.isDraggingSync = "wcl"
  THEN Mark([a EXCEPT !.wclOffsetSec = Plus(c.wclOffsetSec, deltaTime(c, x)),
                      !.dragStart = Restart(c, x)],
            "wclOffsetSec", Rounded(c, "wclOffsetSec") \/ DeltaRounded(c, x))
  ELSE IF c.isDragging
  THEN Mark([a EXCEPT !.panOffset = Minus(c.dragStart.panOffset, FromInt(x - c.dragStart.x))],
            "panOffset", DragStartRounded(c))
  ELSE a
\* e is one of Roundings(c, x, y)
handleMouseMove(c, a, x, y, e) == DragAt(c, HoverAt(c, a, x, y, e.fight), x, y)

handleMouseUp(a) == [a EXCEPT !.isDragging = FALSE, !.isDraggingSync = "none"]

\* document mousemove / mouseup listeners of the pan drag effect
PanGlobalMouseMove(c, a, x) ==
  Mark([a EXCEPT !.panOffset = Minus(c.dragStart.panOffset, FromInt(x - c.dragStart.x))],
       "panOffset", DragStartRounded(c))
PanGlobalMouseUp(a) == [a EXCEPT !.isDragging = FALSE]

\* document mousemove / mouseup listeners of the sync bar drag effect.  The
\* anchor update is a functional update: it applies to the queued value.
SyncGlobalMouseMove(c, a, x) ==
  IF c.isDraggingSync = "video"
  THEN Mark([a EXCEPT !.videoOffsetSec = Plus(@, deltaTime(c, x)),
                      !.dragStart = Restart(c, x)],
            "videoOffsetSec", Rounded(a, "videoOffsetSec") \/ DeltaRounded(c, x))
  ELSE Mark([a EXCEPT !.wclOffsetSec = Plus(@, deltaTime(c, x)),
                      !.dragStart = Restart(c, x)],
            "wclOffsetSec", Rounded(a, "wclOffsetSec") \/ DeltaRounded(c, x))
SyncGlobalMouseUp(a) == [a EXCEPT !.isDraggingSync = "none"]

\* the document listeners registered at the time of the event
PanListening(c) == "pan" \in c.listeners
SyncListening(c) == "sync" \in c.listeners

\* One native mousemove: the canvas handler (React root) runs first when the
\* pointer is over the canvas, then the document listeners; all updates are
\* batched into one render.
CanvasMouseMove(c, a, x, y, e) ==
  IF OverCanvas(c, x, y) THEN handleMouseMove(c, a, x, y, e) ELSE a
PanDocumentMouseMove(c, a, x) ==
  IF PanListening(c) THEN PanGlobalMouseMove(c, a, x) ELSE a
SyncDocumentMouseMove(c, a, x) ==
  IF SyncListening(c) THEN SyncGlobalMouseMove(c, a, x) ELSE a
MouseMoveEvent(c, x, y, e) ==
  SyncDocumentMouseMove(c, PanDocumentMouseMove(c, CanvasMouseMove(c, c, x, y, e), x), x)

CanvasMouseUp(c, a, x, y) == IF OverCanvas(c, x, y) THEN handleMouseUp(a) ELSE a
PanDocumentMouseUp(c, a) == IF PanListening(c) THEN PanGlobalMouseUp(a) ELSE a
SyncDocumentMouseUp(c, a) == IF SyncListening(c) THEN SyncGlobalMouseUp(a) ELSE a
MouseUpEvent(c, x, y) ==
  SyncDocumentMouseUp(c, PanDocumentMouseUp(c, CanvasMouseUp(c, c, x, y)))

\* Handle mouse wheel for zoom; zoomIn is deltaY <= 0
zoomFactor(zoomIn) == IF zoomIn THEN <<11, 10>> ELSE <<9, 10>>
minZoomForReport(c) == Over(containerWidth(c), totalDurationWithPadding(c))
WheelZoom(c, zoomIn) ==
  RMax(RMax(MIN_ZOOM, minZoomForReport(c)),
       RMin(Times(c.zoom, zoomFactor(zoomIn)), MAX_ZOOM))
\* (first a variant that keeps the time at the left edge in place)
panAdjustmentAtEdge(c, mouseX, newZoom) ==
  Minus(Times(xToTime(c, Zero), newZoom), c.panOffset)
panAdjustment(c, mouseX, newZoom) ==
  Minus(Minus(Times(xToTime(c, mouseX), newZoom), c.panOffset), mouseX)
ZoomAt(c, mouseX, newZoom) ==
  [c EXCEPT !.zoom = newZoom,
            !.panOffset = Plus(c.panOffset, panAdjustment(c, mouseX, newZoom))]
\* the new zoom is rounded (1.1 and 0.9 are) unless it is one of the clamps
\* and not the product; the pan is computed from the time under the pointer,
\* the old and the new zoom
ClampKept(c, zoomIn) == RMin(Times(c.zoom, zoomFactor(zoomIn)), MAX_ZOOM)
WheelZoomRounded(c, zoomIn) ==
  \/ /\ Leq(RMax(MIN_ZOOM, minZoomForReport(c)), ClampKept(c, zoomIn))
     /\ Leq(Times(c.zoom, zoomFactor(zoomIn)), MAX_ZOOM)
  \/ /\ Leq(ClampKept(c, zoomIn), RMax(MIN_ZOOM, minZoomForReport(c)))
     /\ ~Dyadic(totalDurationWithPadding(c))
WheelMarked(c, a, mouseX, zoomIn) ==
  PanMarked(ZoomMarked(a, WheelZoomRounded(c, zoomIn)),
            ViewRounded(c) \/ ~Dyadic(xToTime(c, mouseX)))
handleWheel(c, x, zoomIn) ==
  WheelMarked(c, ZoomAt(c, FromInt(x), WheelZoom(c, zoomIn)), FromInt(x), zoomIn)

\* Calculate appropriate time step for markers based on zoom (first a
\* variant without the 30 s step)
secondsPerMarker(currentZoom) == Over(FromInt(100), currentZoom)
TimeStepForCoarse(spm) ==
  IF Leq(spm, FromInt(10)) THEN 10
  ELSE IF Leq(spm, FromInt(60)) THEN 60
  ELSE IF Leq(spm, FromInt(120)) THEN 120
  ELSE IF Leq(spm, FromInt(300)) THEN 300
  ELSE 600
TimeStepFor(spm) ==
  IF Leq(spm, FromInt(10)) THEN 10
  ELSE IF Leq(spm, FromInt(30)) THEN 30
  ELSE IF Leq(spm, FromInt(60)) THEN 60
  ELSE IF Leq(spm, FromInt(120)) THEN 120
  ELSE IF Leq(spm, FromInt(300)) THEN 300
  ELSE 600
calculateTimeStep(currentZoom) == TimeStepFor(secondsPerMarker(currentZoom))
\* the step of the time markers a draw uses
timeStep(c) == calculateTimeStep(c.zoom)

\* Lock toggle button onClick; confirmed is the answer of window.confirm
\* (first a variant that toggles without asking)
LockToggleClickUnasked(c, confirmed) == [c EXCEPT !.isLocked = ~c.isLocked]
\* (and a variant that unlocks an auto-synced lock without clearing the mark)
LockToggleClickKeepsMark(c, confirmed) ==
  IF c.isLocked /\ c.autoSynced
  THEN IF confirmed THEN [c EXCEPT !.isLocked = FALSE] ELSE c
  ELSE [c EXCEPT !.isLocked = ~c.isLocked]
LockToggleClick(c, confirmed) ==
  IF c.isLocked /\ c.autoSynced
  THEN IF confirmed THEN [c EXCEPT !.isLocked = FALSE, !.autoSynced = FALSE] ELSE c
  ELSE [c EXCEPT !.isLocked = ~c.isLocked]

\* ------------------------------------------------------------------------
\* Host pages of the simple Timeline (src/unnamed/part_003, part_004)
\* ------------------------------------------------------------------------
PageOffsets == {-10, 0, 10}
MaxPageEvents == 2

\* handleTimelineClick(eventTime): the video time handed to playerRef.seekTo
PageSeekTimeOf(eventTime, off) == Plus(eventTime, off)

\* ------------------------------------------------------------------------
\* draw(): the calls made on the canvas, as a function of the render c
\* ------------------------------------------------------------------------
\* Math.floor / Math.ceil of a finite number, as integers
Floor(r) == r[1] \div r[2]
Ceil(r) == -((-r[1]) \div r[2])
\* Math.floor / Math.ceil: NaN and the infinities are returned as they are
RFloor(r) == IF Finite(r) THEN FromInt(Floor(r)) ELSE r
RCeil(r) == IF Finite(r) THEN FromInt(Ceil(r)) ELSE r
\* Math.floor / Math.ceil of a number that is exactly an integer while the
\* double the code holds is rounded (doubt): a double just below the integer
\* (s < 0) is floored to the integer before, one just above it (s > 0) is
\* raised to the integer after
Whole(r) == Finite(r) /\ r[1] % r[2] = 0
RFloorAs(r, doubt, s) ==
  IF Whole(r) /\ doubt /\ s < 0 THEN FromInt(Floor(r) - 1) ELSE RFloor(r)
RCeilAs(r, doubt, s) ==
  IF Whole(r) /\ doubt /\ s > 0 THEN FromInt(Ceil(r) + 1) ELSE RCeil(r)

\* const width = container.clientWidth
width(c) == FromInt(c.clientWidth)
OnCanvas(c, x) == Leq(Zero, x) /\ Leq(x, width(c))

\* time markers: one line per multiple of timeStep between startTime and
\* endTime whose x is on the canvas.  The time under a pixel is rounded when
\* the pan is, or the zoom is and the time is not 0; s is the sign of the
\* rounding error of xToTime(0) / timeStep and of xToTime(width) / timeStep
TimeRounded(c, x) ==
  Rounded(c, "panOffset") \/ (Rounded(c, "zoom") /\ Plus(x, c.panOffset) # Zero)
tickStartTime(c, step, s) ==
  RMax(Zero, Times(RFloorAs(Over(xToTime(c, Zero), FromInt(step)),
                            TimeRounded(c, Zero), s),
                   FromInt(step)))
tickEndTime(c, step, s) ==
  RMin(reportDuration(c),
       Times(RCeilAs(Over(xToTime(c, width(c)), FromInt(step)),
                     TimeRounded(c, width(c)), s),
             FromInt(step)))
\* a marker whose exact x is 0 or the canvas width is on the border: zoom and
\* panOffset carry rounding errors and the test x >= 0 && x <= width of the
\* code draws or skips it (border |-> TRUE); the other markers are drawn
OnBorder(c, x) == x = Zero \/ x = width(c)
\* for (t = startTime; t <= endTime; t += timeStep): no pass when a bound is
\* NaN
StepsBetween(step, from, to) ==
  IF IsNaN(from) \/ IsNaN(to) THEN {}
  ELSE { Plus(from, FromInt(k * step)) :
           k \in 0..Floor(Over(Minus(to, from), FromInt(step))) }
TicksBetween(c, step, from, to) ==
  { [t |-> t, x |-> timeToX(c, t), border |-> OnBorder(c, timeToX(c, t))] :
      t \in { u \in StepsBetween(step, from, to) : OnCanvas(c, timeToX(c, u)) } }
TicksOfStep(c, step, e) ==
  TicksBetween(c, step, tickStartTime(c, step, e.tickStart), tickEndTime(c, step, e.tickEnd))
TickCalls(c, e) == TicksOfStep(c, timeStep(c), e)

\* a sync bar starting at x, w wide: drawn when part of it is on the canvas
\* (x + w > 0 && x < width), clipped to the canvas.  s is the sign of the
\* rounding error of the bar's coordinates, sl that of its width against the
\* 80 px a label needs
BarVisible(c, x, w, doubt, s) ==
  LessAs(Zero, Plus(x, w), doubt, -s) /\ LessAs(x, width(c), doubt, s)
BarCall(c, bar, x, w, doubt, sl) ==
  [ bar |-> bar, x |-> RMax(Zero, x), w |-> RMin(w, Minus(width(c), RMax(Zero, x))),
    active |-> (c.isDraggingSync = bar), locked |-> c.isLocked,
    label |-> LessAs(FromInt(80), w, doubt, -sl) ]
videoX(c) == timeToX(c, c.videoOffsetSec)
videoW(c) == Times(videoDurationSec(c), c.zoom)
wclX(c) == timeToX(c, c.wclOffsetSec)
wclW(c) == Times(reportDuration(c), c.zoom)
BarCalls(c, e) ==
  (IF BarVisible(c, videoX(c), videoW(c), VideoDoubt(c), e.video)
   THEN {BarCall(c, "video", videoX(c), videoW(c), VideoDoubt(c), e.videoLabel)} ELSE {})
  \cup
  (IF BarVisible(c, wclX(c), wclW(c), WclDoubt(c), e.wcl)
   THEN {BarCall(c, "wcl", wclX(c), wclW(c), WclDoubt(c), e.wclLabel)} ELSE {})

\* a fight bar: skipped when x + w < 0 or x > width, else a rectangle from x,
\* at least 2 px wide.  s is the sign of the rounding error of the bar's
\* coordinates, sl that of its width against the 60 px a label needs
fightX(c, fight) == timeToX(c, Plus(Rat(fight.startTime, 1000), c.wclOffsetSec))
fightW(c, fight) == Times(Rat(fight.endTime - fight.startTime, 1000), c.zoom)
FightRounded(c, fight) ==
  \/ ViewRounded(c) \/ Rounded(c, "wclOffsetSec")
  \/ ~Dyadic(Rat(fight.startTime, 1000)) \/ ~Dyadic(Rat(fight.endTime, 1000))
FightVisible(c, fight, s) ==
  ~( \/ LessAs(Plus(fightX(c, fight), fightW(c, fight)), Zero, FightRounded(c, fight), s)
     \/ LessAs(width(c), fightX(c, fight), FightRounded(c, fight), -s) )
FightCall(c, fight, sl) ==
  [ id |-> fight.id, x |-> fightX(c, fight), w |-> RMax(fightW(c, fight), FromInt(2)),
    selected |-> (fight.id = c.selectedFightId), hovered |-> (c.hoveredFight = fight.id),
    label |-> LessAs(FromInt(60), fightW(c, fight), FightRounded(c, fight), -sl) ]
FightCalls(c, e) ==
  { FightCall(c, Fights[i], e.fightLabel[i]) :
      i \in {j \in 1..Len(Fights) : FightVisible(c, Fights[j], e.fight[j])} }

\* the event markers of the selected fight: skipped when x < 0 or x > width
\* (s: the sign of the rounding error of x)
EventVisible(c, ev, s) ==
  ~( \/ LessAs(eventX(c, ev), Zero, EventDoubt(c, ev), s)
     \/ LessAs(width(c), eventX(c, ev), EventDoubt(c, ev), -s) )
EventCall(c, i) ==
  [ i |-> i, x |-> eventX(c, c.events[i]), y |-> eventRowY(c.events[i]) + 10,
    type |-> c.events[i].type ]
EventCalls(c, e) ==
  IF EventsClickable(c)
  THEN { EventCall(c, i) :
           i \in {j \in 1..Len(c.events) : EventVisible(c, c.events[j], e.event[j])} }
  ELSE {}

\* the current time indicator, when x >= 0 && x <= width (s: the sign of the
\* rounding error of x; the offset prop is a difference of the two anchors)
IndicatorRounded(c) ==
  \/ ViewRounded(c) \/ Rounded(c, "wclOffsetSec") \/ Rounded(c, "videoOffsetSec")
  \/ ~Dyadic(c.offset)
IndicatorVisible(c, s) ==
  /\ LeqAs(Zero, indicatorX(c, FromInt(c.currentVideoTime)), IndicatorRounded(c), -s)
  /\ LeqAs(indicatorX(c, FromInt(c.currentVideoTime)), width(c), IndicatorRounded(c), s)
IndicatorCalls(c, e) ==
  IF IndicatorVisible(c, e.indicator)
  THEN { [ x |-> indicatorX(c, FromInt(c.currentVideoTime)),
           wclTime |-> wclTimeAt(FromInt(c.currentVideoTime), c.offset) ] }
  ELSE {}

\* e is one of DrawRoundings(c)
draw(c, e) ==
  [ ticks |-> TickCalls(c, e), bars |-> BarCalls(c, e), fights |-> FightCalls(c, e),
    events |-> EventCalls(c, e), indicator |-> IndicatorCalls(c, e) ]

\* The rounding errors that decide the comparisons of a draw(): one sign for
\* each of them, other than 0 only where the two exact values compared are
\* equal and one of them is rounded
Among(x, borders, doubt) == doubt /\ Finite(x) /\ x \in borders
SignsOver(n, edges) ==
  IF edges = {} THEN { [i \in 1..n |-> 0] }
  ELSE { g \in [1..n -> Signs] : \A i \in 1..n : i \notin edges => g[i] = 0 }
VideoBarOnBorder(c) ==
  \/ Among(Plus(videoX(c), videoW(c)), {Zero}, VideoDoubt(c))
  \/ Among(videoX(c), {width(c)}, VideoDoubt(c))
WclBarOnBorder(c) ==
  \/ Among(Plus(wclX(c), wclW(c)), {Zero}, WclDoubt(c))
  \/ Among(wclX(c), {width(c)}, WclDoubt(c))
FightsOnBorder(c) ==
  { i \in 1..Len(Fights) :
      \/ Among(Plus(fightX(c, Fights[i]), fightW(c, Fights[i])), {Zero},
               FightRounded(c, Fights[i]))
      \/ Among(fightX(c, Fights[i]), {width(c)}, FightRounded(c, Fights[i])) }
FightsAtLabelWidth(c) ==
  { i \in 1..Len(Fights) :
      Among(fightW(c, Fights[i]), {FromInt(60)}, FightRounded(c, Fights[i])) }
EventsOnBorder(c) ==
  { i \in 1..Len(c.events) :
      Among(eventX(c, c.events[i]), {Zero, width(c)}, EventDoubt(c, c.events[i])) }
DrawRoundings(c) ==
  { [ tickStart |-> ts, tickEnd |-> te, video |-> v, videoLabel |-> vl,
      wcl |-> w, wclLabel |-> wl, fight |-> f, fightLabel |-> fl,
      event |-> g, indicator |-> i ] :
      ts \in SignsIf(TimeRounded(c, Zero)
                       /\ Whole(Over(xToTime(c, Zero), FromInt(timeStep(c))))),
      te \in SignsIf(TimeRounded(c, width(c))
                       /\ Whole(Over(xToTime(c, width(c)), FromInt(timeStep(c))))),
      v \in SignsIf(VideoBarOnBorder(c)),
      vl \in SignsIf(Among(videoW(c), {FromInt(80)}, VideoDoubt(c))),
      w \in SignsIf(WclBarOnBorder(c)),
      wl \in SignsIf(Among(wclW(c), {FromInt(80)}, WclDoubt(c))),
      f \in SignsOver(Len(Fights), FightsOnBorder(c)),
      fl \in SignsOver(Len(Fights), FightsAtLabelWidth(c)),
      g \in SignsOver(Len(c.events), EventsOnBorder(c)),
      i \in SignsIf(Among(indicatorX(c, FromInt(c.currentVideoTime)),
                          {Zero, width(c)}, IndicatorRounded(c))) }

\* useEffect(() => { draw(); }, [draw]): draw is a new function whenever one
\* of the dependencies of its useCallback changes
\* (first a variant without the mapper, i.e. without the pan)
DrawDepsWithoutMapper(c) ==
  << c.selectedFightId, c.events, c.zoom, c.hoveredFight,
     c.currentVideoTime, c.offset, c.videoOffsetSec, c.wclOffsetSec,
     videoDurationSec(c), reportDuration(c), c.isDraggingSync, c.isLocked >>
\* (a number of the list is another double when it is the same exact number
\* with another rounding mark)
DrawnMarks(c) == c.rounded \cap {"zoom", "panOffset", "videoOffsetSec", "wclOffsetSec"}
DrawDeps(c) ==
  << c.selectedFightId, c.events, c.zoom, c.panOffset, c.hoveredFight,
     c.currentVideoTime, c.offset, c.videoOffsetSec, c.wclOffsetSec,
     videoDurationSec(c), reportDuration(c), c.isDraggingSync, c.isLocked,
     DrawnMarks(c) >>
\* the props and state draw() reads from its closure and the container, with
\* the rounding marks of the numbers
Painted(c) ==
  [ clientWidth |-> c.clientWidth,
    reportStartTime |-> c.reportStartTime, reportEndTime |-> c.reportEndTime,
    selectedFightId |-> c.selectedFightId, events |-> c.events,
    currentVideoTime |-> c.currentVideoTime, offset |-> c.offset,
    videoDuration |-> c.videoDuration, zoom |-> c.zoom, panOffset |-> c.panOffset,
    hoveredFight |-> c.hoveredFight, videoOffsetSec |-> c.videoOffsetSec,
    wclOffsetSec |-> c.wclOffsetSec, isLocked |-> c.isLocked,
    isDraggingSync |-> c.isDraggingSync, rounded |-> DrawnMarks(c) ]
DrawEffect(c, a) == [a EXCEPT !.drawn = Painted(c)]

\* ------------------------------------------------------------------------
\* The document listeners of the drags
\* ------------------------------------------------------------------------
\* useEffect(..., [isDragging, dragStart]): while isDragging, mousemove and
\* mouseup listeners on the document; the cleanup removes them (first a
\* variant whose cleanup removes nothing)
PanListenDeps(c) == <<c.isDragging, c.dragStart>>
PanListenEffect(c, a) ==
  IF c.isDragging THEN [a EXCEPT !.listeners = @ \cup {"pan"}] ELSE a
PanListenCleanupMissing(a) == a
PanListenCleanup(a) == [a EXCEPT !.listeners = @ \ {"pan"}]

\* useEffect(..., [isDraggingSync, dragStart, zoom]): the same for a sync bar
\* drag
SyncListenDeps(c) == <<c.isDraggingSync, c.dragStart, c.zoom>>
SyncListenEffect(c, a) ==
  IF c.isDraggingSync # "none" THEN [a EXCEPT !.listeners = @ \cup {"sync"}] ELSE a
SyncListenCleanup(a) == [a EXCEPT !.listeners = @ \ {"sync"}]

\* ------------------------------------------------------------------------
\* Commits
\* ------------------------------------------------------------------------
\* One commit: the effects whose dependencies differ from the previous
\* commit p (all of them on the first commit) run in source order, each
\* reading the render c.
InitSyncStep(p, c, first, a) ==
  IF first \/ InitSyncDeps(p) # InitSyncDeps(c) THEN InitSyncEffect(c, a) ELSE a
LockedOffsetStep(p, c, first, a) ==
  IF first \/ LockedOffsetDeps(p) # LockedOffsetDeps(c) THEN LockedOffsetEffect(c, a) ELSE a
InitialFitStep(p, c, first, a) ==
  IF first \/ InitialFitDeps(p) # InitialFitDeps(c) THEN InitialFitEffect(c, a) ELSE a
AutoZoomStep(p, c, first, a) ==
  IF first \/ AutoZoomDeps(p) # AutoZoomDeps(c) THEN AutoZoomEffect(c, a) ELSE a
DragStopStep(p, c, first, a) ==
  IF first \/ DragStopDeps(p) # DragStopDeps(c) THEN DragStopEffect(c, a) ELSE a
DrawStep(p, c, first, a) ==
  IF first \/ DrawDeps(p) # DrawDeps(c) THEN DrawEffect(c, a) ELSE a
PanListenStep(p, c, first, a) ==
  IF first \/ PanListenDeps(p) # PanListenDeps(c)
  THEN PanListenEffect(c, PanListenCleanup(a)) ELSE a
SyncListenStep(p, c, first, a) ==
  IF first \/ SyncListenDeps(p) # SyncListenDeps(c)
  THEN SyncListenEffect(c, SyncListenCleanup(a)) ELSE a
RunEffects(p, c, first) ==
  SyncListenStep(p, c, first,
    PanListenStep(p, c, first,
      DrawStep(p, c, first,
        DragStopStep(p, c, first,
          AutoZoomStep(p, c, first,
            InitialFitStep(p, c, first,
              LockedOffsetStep(p, c, first,
                InitSyncStep(p, c, first, c))))))))

\* Re-render and run effects until no state or prop changes any more
RECURSIVE Settle(_, _)
Rerender(c, a) == IF Rendered(a) = Rendered(c) THEN a ELSE Settle(c, a)
Settle(p, c) ==
  CHOOSE r \in { Rerender(cv, a) : cv \in {c}, a \in {RunEffects(p, c, FALSE)} } : TRUE

\* a new instance of the component: every useState at its initial value, an
\* untouched canvas, no listener of its own
Fresh(c) ==
  [c EXCEPT !.zoom = <<1, 1>>, !.panOffset = Zero, !.isDragging = FALSE,
            !.dragStart = [x |-> 0, panOffset |-> Zero], !.hoveredFight = 0,
            !.videoOffsetSec = Zero, !.wclOffsetSec = Zero, !.isLocked = FALSE,
            !.isDraggingSync = "none", !.autoSynced = FALSE, !.rounded = {},
            !.drawn = NoDraw]

\* the component is removed: the cleanup of every effect runs
UnmountCleanups(c) == SyncListenCleanup(PanListenCleanup(c))

\* The first render and its effects
MountCommit(c) ==
  CHOOSE r \in { Rerender(c, a) : a \in {RunEffects(c, c, TRUE)} } : TRUE

\* ------------------------------------------------------------------------
\* The video players (YouTubePlayer.tsx, src/unnamed/part_002 TwitchPlayer,
\* src/unnamed/part_000 VideoPlayer).  v is the player subtree as one record,
\* p / c the previous and the current render of the child, a the world with
\* the effects applied so far.
\* ------------------------------------------------------------------------
MaxBackends == 3
MaxPlayerMounts == 2
\* the platform prop is an unchecked cast of the URL parameter: the two
\* supported platforms and one that is not
Platforms == {"youtube", "twitch", "vimeo"}
VideoIds == {1, 2}
StartSeconds == {0, 30}

\* what an effect run closes over: its component instance, platform, the
\* videoId and onReady props and the player state of its render.  A callback
\* prop is the identity of the function passed, 0 when none is passed.
HostOnTimeUpdate == 1
NoClosure ==
  [owner |-> 0, platform |-> "none", videoId |-> 0, hasOnReady |-> FALSE, player |-> 0]
Closure(c) ==
  [owner |-> c.mountId, platform |-> c.platform, videoId |-> c.videoId,
   hasOnReady |-> (c.onReady # 0), player |-> c.player]

\* rendered: the host renders VideoPlayer (its ref handle is set); mounted: the
\* YouTubePlayer or TwitchPlayer child of the platform is mounted
NoVideoPlayer ==
  [ rendered |-> FALSE,
    mounted |-> FALSE, mountId |-> 0, platform |-> "none", videoId |-> 0,
    startSeconds |-> 0, onReady |-> 0, onTimeUpdate |-> 0,
    player |-> 0, isReady |-> FALSE,
    timeUpdateIntervalRef |-> 0, timers |-> {}, nTimers |-> 0,
    backends |-> << >>, apiLoaded |-> {}, scripts |-> {},
    onYouTubeIframeAPIReady |-> NoClosure, twitchOnload |-> NoClosure,
    calls |-> << >> ]

\* a call made on a backend instance (status: the instance's state when it is
\* called) or on the host (backend 0); live: the calling component is mounted
Call(a, op, backend, live) ==
  [ op |-> op, backend |-> backend,
    status |-> IF backend = 0 THEN "host" ELSE a.backends[backend].status, live |-> live ]
Record(a, op, backend, live) == [a EXCEPT !.calls = Append(@, Call(a, op, backend, live))]

\* the component instance a closure belongs to is still mounted (its refs to
\* DOM nodes are non-null)
Attached(cl, a) == a.mounted /\ a.mountId = cl.owner

\* useEffect(..., [player, onTimeUpdate]): the 100 ms poll
PollDeps(c) == <<c.player, c.onTimeUpdate>>
PollEffect(c, a) ==
  IF c.player # 0 /\ c.onTimeUpdate # 0
  THEN [a EXCEPT !.nTimers = @ + 1, !.timeUpdateIntervalRef = a.nTimers + 1,
                 !.timers = @ \cup {[id |-> a.nTimers + 1, player |-> c.player]}]
  ELSE a
PollCleanup(a) ==
  IF a.timeUpdateIntervalRef # 0
  THEN [a EXCEPT !.timers = {t \in @ : t.id # a.timeUpdateIntervalRef}]
  ELSE a

\* useEffect(..., [videoId, startSeconds, onReady, onStateChange, player]):
\* initializePlayer and the cleanup that destroys the player of its render
\* (VideoPlayer passes no onStateChange: it is undefined in every render)
InitDeps(c) == <<c.videoId, c.startSeconds, c.onReady, c.player>>
initializePlayer(cl, a) ==
  IF cl.platform \in a.apiLoaded /\ Attached(cl, a) /\ cl.player = 0
  THEN [a EXCEPT !.backends =
          Append(@, [platform |-> cl.platform, videoId |-> cl.videoId,
                     owner |-> cl.owner, hasOnReady |-> cl.hasOnReady,
                     status |-> "pending"])]
  ELSE a
YouTubeInitEffect(c, a) ==
  IF "youtube" \notin a.apiLoaded
  THEN [a EXCEPT !.onYouTubeIframeAPIReady = Closure(c), !.scripts = @ \cup {"youtube"}]
  ELSE initializePlayer(Closure(c), [a EXCEPT !.onYouTubeIframeAPIReady = Closure(c)])
TwitchInitEffect(c, a) ==
  IF "twitch" \notin a.scripts
  THEN [a EXCEPT !.scripts = @ \cup {"twitch"}, !.twitchOnload = Closure(c)]
  ELSE IF "twitch" \in a.apiLoaded THEN initializePlayer(Closure(c), a)
  ELSE a
InitEffect(c, a) ==
  IF c.platform = "youtube" THEN YouTubeInitEffect(c, a)
  ELSE IF c.platform = "twitch" THEN TwitchInitEffect(c, a)
  ELSE a
InitCleanup(p, a) ==
  IF p.player # 0
  THEN [Record(a, "destroy", p.player, TRUE) EXCEPT !.backends[p.player].status = "destroyed"]
  ELSE a

\* One commit of the child: the cleanups of the effects whose dependencies
\* changed, in source order, then those effects
PlayerCleanups(p, c, a) ==
  CHOOSE r \in { IF InitDeps(p) # InitDeps(c) THEN InitCleanup(p, polled) ELSE polled :
                   polled \in { IF PollDeps(p) # PollDeps(c) THEN PollCleanup(a) ELSE a } } : TRUE
PlayerEffects(p, c, first, a) ==
  CHOOSE r \in { IF first \/ InitDeps(p) # InitDeps(c) THEN InitEffect(c, polled) ELSE polled :
                   polled \in { IF first \/ PollDeps(p) # PollDeps(c)
                                THEN PollEffect(c, a) ELSE a } } : TRUE
PlayerCommit(p, c) == PlayerEffects(p, c, FALSE, PlayerCleanups(p, c, c))

\* VideoPlayer renders the child of its platform, and the "Unsupported
\* platform" block without a child for any other platform; pr are the props
\* it passes on.  The child is mounted: fresh state and refs, first effects
PlayerProps(videoId, startSeconds, onReady, onTimeUpdate) ==
  [videoId |-> videoId, startSeconds |-> startSeconds, onReady |-> onReady,
   onTimeUpdate |-> onTimeUpdate]
PropsOf(v) == PlayerProps(v.videoId, v.startSeconds, v.onReady, v.onTimeUpdate)
PlayerRendered(v, platform, pr) ==
  [v EXCEPT !.rendered = TRUE, !.platform = platform,
            !.videoId = pr.videoId, !.startSeconds = pr.startSeconds,
            !.onReady = pr.onReady, !.onTimeUpdate = pr.onTimeUpdate]
PlayerMounted(v, platform, pr) ==
  [PlayerRendered(v, platform, pr) EXCEPT
      !.mounted = TRUE, !.mountId = @ + 1,
      !.player = 0, !.isReady = FALSE, !.timeUpdateIntervalRef = 0]
Supported(platform) == platform \in {"youtube", "twitch"}
PlayerMount(v, platform, pr) ==
  IF Supported(platform)
  THEN CHOOSE r \in { PlayerEffects(c, c, TRUE, c) :
                        c \in {PlayerMounted(v, platform, pr)} } : TRUE
  ELSE PlayerRendered(v, platform, pr)

\* the child, when there is one, is unmounted: every cleanup runs
ChildUnmount(v) ==
  IF v.mounted THEN [InitCleanup(v, PollCleanup(v)) EXCEPT !.mounted = FALSE] ELSE v
\* VideoPlayer is removed
PlayerUnmount(v) == [ChildUnmount(v) EXCEPT !.rendered = FALSE]
\* a prop other than the platform changes: a commit of the child, when there
\* is one
PropsCommit(v, c) == IF v.mounted THEN PlayerCommit(v, c) ELSE c

\* the backend's ready signal reaches the handler given to instance i
Ready(v, i) == [v EXCEPT !.backends[i].status = "ready"]
ReadyCallback(a, i, live) ==
  IF a.backends[i].hasOnReady THEN Record(a, "onReady", 0, live) ELSE a
OnReady(v, i) ==
  IF Attached(v.backends[i], v)
  THEN PlayerCommit(v, ReadyCallback(
         [Record(Ready(v, i), "setState", i, TRUE) EXCEPT !.isReady = TRUE, !.player = i],
         i, TRUE))
  ELSE ReadyCallback(Record(Ready(v, i), "setState", i, FALSE), i, FALSE)

\* the embed script of a platform has loaded: window.YT / window.Twitch is
\* defined and the registered callback runs
ApiLoaded(v, platform) ==
  initializePlayer(IF platform = "youtube" THEN v.onYouTubeIframeAPIReady ELSE v.twitchOnload,
                   [v EXCEPT !.apiLoaded = @ \cup {platform}])

\* one tick of interval timer t
PollTick(v, t) ==
  Record(Record(v, "getCurrentTime", t.player, v.mounted), "onTimeUpdate", 0, v.mounted)

\* the ref handles: VideoPlayer forwards to the child of its platform (to
\* none for an unsupported platform: seekTo does nothing and getCurrentTime
\* returns 0), the child to its player
\* (first a variant that seeks on the newest instance, ready or not)
ChildSeekToNewest(v) ==
  IF Len(v.backends) > 0 THEN Record(v, "seek", Len(v.backends), TRUE) ELSE v
ChildSeekTo(v) == IF v.player # 0 THEN Record(v, "seek", v.player, TRUE) ELSE v
ChildGetCurrentTime(v) ==
  IF v.player # 0 THEN Record(v, "getCurrentTime", v.player, TRUE) ELSE Record(v, "return 0", 0, TRUE)
ChildRef(v, platform) == v.mounted /\ v.platform = platform
VideoPlayerSeekTo(v) ==
  IF ChildRef(v, "youtube") THEN ChildSeekTo(v)
  ELSE IF ChildRef(v, "twitch") THEN ChildSeekTo(v)
  ELSE v
VideoPlayerGetCurrentTime(v) ==
  IF ChildRef(v, "youtube") THEN ChildGetCurrentTime(v)
  ELSE IF ChildRef(v, "twitch") THEN ChildGetCurrentTime(v)
  ELSE Record(v, "return 0", 0, v.rendered)
\* the number getCurrentTime returns when the backend reports t
CurrentTimeRead(v, t) ==
  IF (ChildRef(v, "youtube") \/ ChildRef(v, "twitch")) /\ v.player # 0 THEN t ELSE 0

\* the record at the start of a step: no call made yet
Quiet(v) == [v EXCEPT !.calls = << >>]

\* ------------------------------------------------------------------------
\* TimelineAligner (TimelineAligner.tsx).  c is a render of the component as
\* one record, a the state with the updates queued so far.
\* ------------------------------------------------------------------------
AlignerContainerWidth == 800
\* getBoundingClientRect().left of the container
AlignerLeft == 100

NoAligner ==
  [ mounted |-> FALSE,
    wclDuration |-> 0, wclStartTime |-> 0, videoDuration |-> 0, videoStartTime |-> 0,
    initialOffset |-> 0,
    wclOffset |-> Zero, videoOffset |-> Zero, initialized |-> FALSE,
    isDraggingWcl |-> FALSE, isDraggingVideo |-> FALSE,
    listening |-> FALSE, offsetCalls |-> << >> ]

wclDurationSec(c) == Rat(c.wclDuration, 1000)
maxDuration(c) == RMax(wclDurationSec(c), FromInt(c.videoDuration))
pixelsPerSecond(c) == Over(FromInt(AlignerContainerWidth), maxDuration(c))

\* the bars (and the container the ref points to) are rendered only for
\* valid durations; otherwise the "Loading timeline data" block is
BarsRendered(c) == c.mounted /\ c.wclDuration > 0 /\ c.videoDuration > 0

\* Initialize positions to auto-align based on timestamps (only once)
AlignerStartDiff(c) == Rat(c.wclStartTime - c.videoStartTime, 1000)
AlignerInitPosition(c, a) ==
  IF c.initialOffset # 0
  THEN [a EXCEPT !.videoOffset = Times(FromInt(c.initialOffset), pixelsPerSecond(c))]
  ELSE IF c.wclStartTime # 0 /\ c.videoStartTime # 0
          /\ Less(RAbs(AlignerStartDiff(c)), FromInt(dayInSeconds))
  THEN [a EXCEPT !.videoOffset = Times(AlignerStartDiff(c), pixelsPerSecond(c))]
  ELSE a
AlignerInitEffect(c, a) ==
  IF c.initialized THEN a ELSE [AlignerInitPosition(c, a) EXCEPT !.initialized = TRUE]

\* Calculate the sync offset in seconds and notify parent
offsetSeconds(c) == Over(Minus(c.videoOffset, c.wclOffset), pixelsPerSecond(c))
AlignerNotifyEffect(c, a) ==
  IF c.initialized /\ offsetSeconds(c)[2] # 0
  THEN [a EXCEPT !.offsetCalls = Append(@, offsetSeconds(c))]
  ELSE a
AlignerNotifyDeps(c) == <<c.wclOffset, c.videoOffset, pixelsPerSecond(c), c.initialized>>

\* document mousemove / mouseup listeners, registered once
AlignerListenEffect(a) == [a EXCEPT !.listening = TRUE]
AlignerListenCleanup(a) == [a EXCEPT !.listening = FALSE]

\* one commit: the mount-only effects on the first, the notification when its
\* dependencies changed; then re-render until the state is stable
AlignerEffects(p, c, first) ==
  CHOOSE r \in
    { IF first THEN AlignerListenEffect(notified) ELSE notified :
        notified \in
          { IF first \/ AlignerNotifyDeps(p) # AlignerNotifyDeps(c)
            THEN AlignerNotifyEffect(c, inited) ELSE inited :
              inited \in { IF first THEN AlignerInitEffect(c, c) ELSE c } } } : TRUE
AlignerState(c) == <<c.wclOffset, c.videoOffset, c.initialized>>
RECURSIVE AlignerSettle(_, _)
AlignerRerender(c, a) ==
  IF AlignerState(a) = AlignerState(c) THEN a ELSE AlignerSettle(c, a)
AlignerSettle(p, c) ==
  CHOOSE r \in { AlignerRerender(c, a) : a \in {AlignerEffects(p, c, FALSE)} } : TRUE
AlignerMount(c) ==
  CHOOSE r \in { AlignerRerender(c, a) : a \in {AlignerEffects(c, c, TRUE)} } : TRUE

\* onMouseDown of a bar
AlignerHandleMouseDown(c, bar) ==
  IF bar = "wcl" THEN [c EXCEPT !.isDraggingWcl = TRUE]
  ELSE [c EXCEPT !.isDraggingVideo = TRUE]

\* Constrain to container bounds (first a variant that does not)
constrainedXUnbounded(x) == x
constrainedX(x) ==
  IF x < 0 THEN 0 ELSE IF x < AlignerContainerWidth THEN x ELSE AlignerContainerWidth
\* document mousemove at clientX
AlignerHandleMouseMove(c, clientX) ==
  IF ~BarsRendered(c) THEN c
  ELSE IF c.isDraggingWcl
  THEN [c EXCEPT !.wclOffset = FromInt(constrainedX(clientX - AlignerLeft))]
  ELSE IF c.isDraggingVideo
  THEN [c EXCEPT !.videoOffset = FromInt(constrainedX(clientX - AlignerLeft))]
  ELSE c
\* document mouseup
AlignerHandleMouseUp(c) == [c EXCEPT !.isDraggingWcl = FALSE, !.isDraggingVideo = FALSE]

\* the record at the start of a step: no notification made yet
AlignerQuiet(c) == [c EXCEPT !.offsetCalls = << >>]

\* ------------------------------------------------------------------------
\* BlizzardApiClient (backend/src/lib/blizzard.ts).  b is the client, its
\* collections and the clock as one record.  An async function runs from one
\* await to the next as one step; a database read returns what the collection
\* holds when the function resumes.
\* ------------------------------------------------------------------------
UPDATE_COOLDOWN == 60 * 60 * 1000
\* the clock advances in steps of half an hour
ClockStepMs == 30 * 60 * 1000
MaxIconCalls == 3
MaxTicks == 2
\* runs of updateAchievements outside a lookup (the one of the server start
\* and those of the admin endpoint), and lookups and such runs together
MaxUpdateRuns == 1
MaxRuns == 3
BossNames == {"Ulgrax", "Sikran"}
\* boss names for which the achievement index of the API has a match
IndexedBosses == {"Ulgrax"}
\* those with an achievement named "Mythic: <boss name>"
MythicBosses == {"Ulgrax"}
NoLog == -1

NoBlizzard ==
  [ now |-> 0,
    pendingBossIconRequests |-> {},   \* entries [bossName, fetch]
    fetches |-> << >>,                \* the fetchBossIconUrl runs
    calls |-> << >>,                  \* the getBossIconUrl calls
    bossIcons |-> {},                 \* BossIcon collection (boss names)
    achievements |-> FALSE,           \* Achievement collection is filled
    updateLog |-> NoLog,              \* AchievementUpdateLog.lastFullUpdate
    refreshes |-> << >>,              \* the full refreshes performed
    started |-> FALSE,                \* initializeIfNeeded has been called
    updates |-> << >> ]               \* the updateAchievements runs outside a lookup

\* Check if we should update achievements (respects cooldown)
shouldUpdateAchievements(b) ==
  b.updateLog = NoLog \/ b.now - b.updateLog >= UPDATE_COOLDOWN

\* Achievement.findOne by the pattern "Mythic: <boss name>", and by the boss
\* name anywhere in the achievement's name
MythicFound(b, bossName) == b.achievements /\ bossName \in MythicBosses
AchievementFound(b, bossName) == b.achievements /\ bossName \in IndexedBosses

\* pendingBossIconRequests.has (first a variant that never finds an entry)
HasPendingNever(b, bossName) == FALSE
HasPending(b, bossName) == \E e \in b.pendingBossIconRequests : e.bossName = bossName
PendingFetch(b, bossName) ==
  (CHOOSE e \in b.pendingBossIconRequests : e.bossName = bossName).fetch
SetPending(b, bossName, f) ==
  [b EXCEPT !.pendingBossIconRequests =
      {e \in @ : e.bossName # bossName} \cup {[bossName |-> bossName, fetch |-> f]}]
\* finally { pendingBossIconRequests.delete(bossName) }
DeletePending(b, bossName) ==
  [b EXCEPT !.pendingBossIconRequests = {e \in @ : e.bossName # bossName}]

\* the promise of run f settles with result: the call that created the run
\* resumes first and removes the pending entry of its boss name, and every
\* call that awaits the promise returns result
CallsReturn(b, f, result) ==
  [b EXCEPT !.calls =
      [k \in 1..Len(b.calls) |->
         IF b.calls[k].fetch = f /\ ~b.calls[k].returned
         THEN [b.calls[k] EXCEPT !.returned = TRUE, !.result = result]
         ELSE b.calls[k]]]
Resolve(b, f, result) ==
  CallsReturn(DeletePending([b EXCEPT !.fetches[f].stage = "done",
                                      !.fetches[f].result = result],
                            b.fetches[f].bossName),
              f, result)
Await(b, f, stage) == [b EXCEPT !.fetches[f].stage = stage]

\* fetchBossIconUrl, findAchievementByBossName, updateAchievements and
\* getAchievementMedia: the continuation of run f after the await it is
\* suspended at.  answer is the outcome of the request awaited: "ok",
\* "failed" (the request rejects) or "empty" (an achievement index without
\* achievements, a media answer without an icon asset).  A rejection at any
\* await ends in one of the catch blocks and the run returns null; a write
\* takes effect when its await resumes.  makeAuthenticatedRequest (token and
\* request) is one await.
Stage(b, f) == b.fetches[f].stage
FetchResume(b, f, answer) ==
  IF Stage(b, f) = "done" THEN b
  ELSE IF answer = "failed" THEN Resolve(b, f, "null")
  ELSE IF Stage(b, f) = "cache"
  THEN IF b.fetches[f].bossName \in b.bossIcons THEN Resolve(b, f, "url")
       ELSE Await(b, f, "findMythic")
  ELSE IF Stage(b, f) = "findMythic"
  THEN IF MythicFound(b, b.fetches[f].bossName) THEN Await(b, f, "media")
       ELSE Await(b, f, "findPartial")
  ELSE IF Stage(b, f) = "findPartial"
  THEN IF AchievementFound(b, b.fetches[f].bossName) THEN Await(b, f, "media")
       ELSE Await(b, f, "should")
  ELSE IF Stage(b, f) = "should"
  THEN IF shouldUpdateAchievements(b) THEN Await(b, f, "recheck")
       ELSE Resolve(b, f, "null")
  ELSE IF Stage(b, f) = "recheck"
  THEN IF shouldUpdateAchievements(b) THEN Await(b, f, "index")
       ELSE Await(b, f, "refindMythic")
  ELSE IF Stage(b, f) = "index"
  THEN IF answer = "empty"
       THEN Await([b EXCEPT !.fetches[f].logAt = b.now], f, "log")
       ELSE Await([b EXCEPT !.fetches[f].fetchedAt = b.now], f, "bulkWrite")
  ELSE IF Stage(b, f) = "bulkWrite"
  THEN Await([b EXCEPT !.achievements = TRUE,
                       !.refreshes = Append(@, [fetchedAt |-> b.fetches[f].fetchedAt,
                                                wroteAt |-> b.now]),
                       !.fetches[f].logAt = b.now],
             f, "log")
  ELSE IF Stage(b, f) = "log"
  THEN Await([b EXCEPT !.updateLog = b.fetches[f].logAt], f, "refindMythic")
  ELSE IF Stage(b, f) = "refindMythic"
  THEN IF MythicFound(b, b.fetches[f].bossName) THEN Await(b, f, "media")
       ELSE Await(b, f, "refindPartial")
  ELSE IF Stage(b, f) = "refindPartial"
  THEN IF AchievementFound(b, b.fetches[f].bossName) THEN Await(b, f, "media")
       ELSE Resolve(b, f, "null")
  ELSE IF Stage(b, f) = "media"
  THEN IF answer = "empty" THEN Resolve(b, f, "null") ELSE Await(b, f, "store")
  ELSE IF Stage(b, f) = "store"
  THEN Resolve([b EXCEPT !.bossIcons = @ \cup {b.fetches[f].bossName}], f, "url")
  ELSE b
\* initializeIfNeeded (server start, after the database connection) and
\* POST /api/admin/update-achievements: a run of updateAchievements outside
\* any lookup.  The first awaits Achievement.countDocuments() and goes on only
\* for an empty collection; both then run updateAchievements from its
\* cooldown check.  A rejection ends the run (initializeIfNeeded logs it, the
\* endpoint answers 500).
initializeIfNeeded(b) ==
  [b EXCEPT !.started = TRUE,
            !.updates = Append(@, [stage |-> "count", fetchedAt |-> 0, logAt |-> 0])]
updateAchievements(b) ==
  [b EXCEPT !.updates = Append(@, [stage |-> "should", fetchedAt |-> 0, logAt |-> 0])]
UpdateAwait(b, u, stage) == [b EXCEPT !.updates[u].stage = stage]
UpdateResume(b, u, answer) ==
  IF b.updates[u].stage = "done" THEN b
  ELSE IF answer = "failed" THEN UpdateAwait(b, u, "done")
  ELSE IF b.updates[u].stage = "count"
  THEN IF b.achievements THEN UpdateAwait(b, u, "done") ELSE UpdateAwait(b, u, "should")
  ELSE IF b.updates[u].stage = "should"
  THEN IF shouldUpdateAchievements(b) THEN UpdateAwait(b, u, "index")
       ELSE UpdateAwait(b, u, "done")
  ELSE IF b.updates[u].stage = "index"
  THEN IF answer = "empty"
       THEN UpdateAwait([b EXCEPT !.updates[u].logAt = b.now], u, "log")
       ELSE UpdateAwait([b EXCEPT !.updates[u].fetchedAt = b.now], u, "bulkWrite")
  ELSE IF b.updates[u].stage = "bulkWrite"
  THEN UpdateAwait([b EXCEPT !.achievements = TRUE,
                             !.refreshes = Append(@, [fetchedAt |-> b.updates[u].fetchedAt,
                                                      wroteAt |-> b.now]),
                             !.updates[u].logAt = b.now],
                   u, "log")
  ELSE IF b.updates[u].stage = "log"
  THEN UpdateAwait([b EXCEPT !.updateLog = b.updates[u].logAt], u, "done")
  ELSE b

\* the outcomes of the request awaited at a stage
Answers == {"ok", "empty", "failed"}
AnswersAt(stage) ==
  IF stage \in {"index", "media"} THEN Answers ELSE {"ok", "failed"}

\* Get boss icon URL by boss name (main entry point)
NewCall(b, bossName, f) ==
  [b EXCEPT !.calls = Append(@, [bossName |-> bossName, fetch |-> f,
                                 returned |-> FALSE, result |-> "none"])]
fetchBossIconUrl(b, bossName) ==
  [b EXCEPT !.fetches = Append(@, [bossName |-> bossName, stage |-> "cache",
                                   result |-> "none", fetchedAt |-> 0, logAt |-> 0])]
getBossIconUrl(b, bossName) ==
  IF HasPending(b, bossName)
  THEN NewCall(b, bossName, PendingFetch(b, bossName))
  ELSE NewCall(SetPending(fetchBossIconUrl(b, bossName), bossName, Len(b.fetches) + 1),
               bossName, Len(b.fetches) + 1)

\* Batch fetch boss icons for multiple boss names: [...new Set(bossNames)],
\* then getBossIconUrl of each in order
RECURSIVE getBossIconUrlsFrom(_, _, _)
getBossIconUrlsFrom(b, bossNames, i) ==
  IF i > Len(bossNames) THEN b
  ELSE IF \E j \in 1..(i - 1) : bossNames[j] = bossNames[i]
  THEN getBossIconUrlsFrom(b, bossNames, i + 1)
  ELSE getBossIconUrlsFrom(getBossIconUrl(b, bossNames[i]), bossNames, i + 1)
getBossIconUrls(b, bossNames) == getBossIconUrlsFrom(b, bossNames, 1)
uniqueBossNames(bossNames) == {bossNames[i] : i \in 1..Len(bossNames)}

\* ------------------------------------------------------------------------
\* The host pages: TimelineContent of part_003 and of part_004.  g is the
\* page: which of the two it is (by the player component it renders:
\* part_003 renders YouTubePlayer itself, part_004 renders VideoPlayer and the
\* TimelineAligner), its URL parameters (0: absent), its state, and the
\* loadReport runs that wait for their answer (each with the fightId
\* parameter it closed over).  The vodId parameter is always present.
\* ------------------------------------------------------------------------
MaxReportLoads == 2

\* useState initial values: loading starts true
NoPage ==
  [ player |-> "VideoPlayer", vodPlatform |-> "youtube", wclCode |-> 0, fightIdParam |-> 0,
    report |-> FALSE, loading |-> TRUE, error |-> FALSE,
    videoMetadata |-> << >>, loads |-> << >>, runs |-> 0 ]

\* what the page returns: the spinner while loading, the error block once an
\* error is set, "Missing Data" without a report (and, on part_003, for any
\* platform but youtube), else its content
ContentShown(g) ==
  /\ ~g.loading /\ ~g.error /\ g.report
  /\ (g.player = "YouTubePlayer" => g.vodPlatform = "youtube")
\* {videoMetadata && report.totalDuration && videoMetadata.duration && ...}:
\* videoMetadata is <<start (ms), duration (s)>>
AlignerShown(g) ==
  /\ ContentShown(g) /\ g.player = "VideoPlayer"
  /\ g.videoMetadata # << >> /\ ReportLengthMs # 0 /\ g.videoMetadata[2] # 0

\* the props the page gives its player: vodId, startSeconds 0, no onReady,
\* setCurrentVideoTime as onTimeUpdate
PagePlayerProps == PlayerProps(1, 0, 0, HostOnTimeUpdate)
\* the commit of a render of the page: the player and the aligner are mounted
\* when the content comes to be shown and unmounted when it is no longer
RenderPlayer(g, v) ==
  IF ContentShown(g)
  THEN IF v.rendered THEN v ELSE PlayerMount(v, g.vodPlatform, PagePlayerProps)
  ELSE IF v.rendered THEN PlayerUnmount(v) ELSE v
RenderAligner(g, a) ==
  IF AlignerShown(g)
  THEN IF a.mounted THEN a
       ELSE AlignerMount([NoAligner EXCEPT !.mounted = TRUE, !.wclDuration = ReportLengthMs,
                                           !.wclStartTime = ReportStart,
                                           !.videoDuration = g.videoMetadata[2],
                                           !.videoStartTime = g.videoMetadata[1]])
  ELSE IF a.mounted THEN AlignerListenCleanup([a EXCEPT !.mounted = FALSE]) ELSE a

\* useEffect(..., [wclCode, fightIdParam]): nothing without a wclCode; else
\* loadReport runs up to its first await: setLoading(true), and the request
\* for the report is on its way
loadReport(g) ==
  IF g.wclCode = 0 THEN g
  ELSE [g EXCEPT !.loading = TRUE, !.loads = Append(@, g.fightIdParam), !.runs = @ + 1]
\* the continuation of run i when its answer is there.  ok: setReport(data);
\* failed (the request or response.json() rejects, or !response.ok):
\* setError(message), which nothing clears again; finally setLoading(false),
\* whatever other runs still wait
ReportAnswered(g, i, answer) ==
  [g EXCEPT !.report = (answer = "ok") \/ @,
            !.error = (answer = "failed") \/ @,
            !.loading = FALSE,
            !.loads = WithoutRequest(@, i)]
\* initialFight: the fight of the fightId parameter when the report has it,
\* else the first fight of the report
initialFight(fightIdParam) ==
  IF \E i \in 1..Len(Fights) : Fights[i].id = fightIdParam
  THEN fightIdParam ELSE Fights[1].id

\* useEffect(..., [wclCode, selectedFight]): loadEvents sends a request when
\* there are a wclCode and a selected fight.  It runs when the selected fight
\* is another object (PageSelect) and when the wclCode changed (EventsEffect)
PageSelect(g, a, fid, reloaded) ==
  IF g.wclCode # 0 THEN SelectFight(a, fid, reloaded) ELSE [a EXCEPT !.selectedFightId = fid]
EventsEffect(g, a) ==
  IF g.wclCode # 0 /\ a.selectedFightId # 0
  THEN [a EXCEPT !.eventRequests = Append(@, a.selectedFightId)] ELSE a

\* the first render of a page and its effects
FirstPage(player, vodPlatform, wclCode, fightIdParam) ==
  loadReport([NoPage EXCEPT !.player = player, !.vodPlatform = vodPlatform,
                            !.wclCode = wclCode, !.fightIdParam = fightIdParam])
\* the page of part_004 with its report loaded and its content shown: the
\* explorations of one component alone keep it as it is
LoadedPage ==
  [NoPage EXCEPT !.wclCode = 1, !.report = TRUE, !.loading = FALSE, !.runs = 1]

\* ------------------------------------------------------------------------
\* Initial state and actions
\* ------------------------------------------------------------------------
\* the page's player once it is ready: a YouTube player for video 1, its
\* script loaded, its one backend instance ready and polled by timer 1
ReadyPlayer ==
  Quiet(OnReady(ApiLoaded(PlayerMount(NoVideoPlayer, "youtube",
                                      PlayerProps(1, 0, 0, HostOnTimeUpdate)),
                          "youtube"), 1))
ReadyTimer == CHOOSE tm \in ReadyPlayer.timers : TRUE

InitWith(widths, lengthsMs, metas, players, pages) ==
  /\ mounted = FALSE
  /\ clientWidth \in widths
  /\ reportStartTime = ReportStart
  /\ reportEndTime \in {ReportStart + l : l \in lengthsMs}
  /\ selectedFightId = 0
  /\ events = << >>
  /\ eventRequests = << >>
  /\ currentVideoTime = 0
  /\ offset = Zero
  /\ \E m \in metas : videoStartTime = m[1] /\ videoDuration = m[2]
  /\ zoom = <<1, 1>>
  /\ panOffset = Zero
  /\ isDragging = FALSE
  /\ dragStart = [x |-> 0, panOffset |-> Zero]
  /\ hoveredFight = 0
  /\ drawn = NoDraw
  /\ listeners = {}
  /\ videoOffsetSec = Zero
  /\ wclOffsetSec = Zero
  /\ isLocked = FALSE
  /\ isDraggingSync = "none"
  /\ autoSynced = FALSE
  /\ rounded = {}
  /\ offsetCalls = << >>
  /\ seekCalls = << >>
  /\ fightSelectCalls = << >>
  /\ pageOffset = Zero
  /\ pageSeekCalls = << >>
  /\ pg \in pages
  /\ vp \in players
  /\ al = NoAligner
  /\ bz = NoBlizzard
  /\ nMoves = 0 /\ nWheels = 0

InitOf(widths, lengthsMs, metas) ==
  InitWith(widths, lengthsMs, metas, {NoVideoPlayer}, {LoadedPage})

\* the page with its player ready, before the timeline is rendered
Init == InitWith(Widths, {ReportLengthMs}, VideoMetas, {ReadyPlayer}, {LoadedPage})

\* a step of the timeline makes no call on the player
BecomePlayer(e) == \E r \in {e} : vp' = r
PageUnchanged ==
  UNCHANGED <<pageOffset, pageSeekCalls, pg, al, bz>> /\ BecomePlayer(Quiet(vp))
CountersUnchanged == UNCHANGED <<nMoves, nWheels>>

\* first render of the component
Mount ==
  /\ ~mounted
  /\ mounted' = TRUE
  /\ Become(MountCommit(Fresh(Cur)))
  /\ PageUnchanged /\ CountersUnchanged

\* the host removes the component (its state stays as it was last)
Unmount ==
  /\ mounted
  /\ mounted' = FALSE
  /\ Become(UnmountCleanups(Cur))
  /\ PageUnchanged /\ CountersUnchanged

\* mousedown on the canvas (a fight is not selected while MaxEventRequests
\* requests are in flight)
PointerDownAs(pt, e) ==
  /\ mounted
  /\ \E r \in {Settle(Cur, handleMouseDown(Cur, pt[1], pt[2], e))} :
        Len(r.eventRequests) <= MaxEventRequests /\ BecomeValue(r)
  /\ UNCHANGED mounted /\ PageUnchanged /\ CountersUnchanged
PointerDown(pt) == \E e \in Roundings(Cur, pt[1], pt[2]) : PointerDownAs(pt, e)

\* the answer to one of the host's requests for events arrives
EventsArrive(i, answer) ==
  /\ i \in 1..Len(eventRequests)
  /\ Become(IF mounted THEN Settle(Cur, LoadEvents(Cur, i, answer))
                       ELSE LoadEvents(Cur, i, answer))
  /\ UNCHANGED mounted /\ PageUnchanged /\ CountersUnchanged

\* mousemove anywhere in the document; at most n of them during drags
PointerMoveWithin(pt, n) ==
  /\ mounted
  /\ (isDragging \/ isDraggingSync # "none") => nMoves < n
  /\ nMoves' = IF isDragging \/ isDraggingSync # "none" THEN nMoves + 1 ELSE nMoves
  /\ \E e \in Roundings(Cur, pt[1], pt[2]) :
        Become(Settle(Cur, MouseMoveEvent(Cur, pt[1], pt[2], e)))
  /\ UNCHANGED <<mounted, nWheels>> /\ PageUnchanged
PointerMove(pt) == PointerMoveWithin(pt, MaxMoves)

\* mouseup anywhere in the document
PointerUp(pt) ==
  /\ mounted
  /\ Become(Settle(Cur, MouseUpEvent(Cur, pt[1], pt[2])))
  /\ UNCHANGED mounted /\ PageUnchanged /\ CountersUnchanged

\* wheel on the canvas; at most n of them
WheelWithin(x, zoomIn, n) ==
  /\ mounted
  /\ nWheels < n
  /\ nWheels' = nWheels + 1
  /\ Become(Settle(Cur, handleWheel(Cur, x, zoomIn)))
  /\ UNCHANGED <<mounted, nMoves>> /\ PageUnchanged
Wheel(x, zoomIn) == WheelWithin(x, zoomIn, MaxWheels)

\* the lock toggle button is activated (onClick).  The click may come from
\* the keyboard or from script; the mouseup of a mouse click is a step of its
\* own (PointerUp) that precedes this one.  A drag in progress stays active.
ToggleLock(confirmed) ==
  /\ mounted
  /\ Become(Settle(Cur, LockToggleClick(Cur, confirmed)))
  /\ UNCHANGED mounted /\ PageUnchanged /\ CountersUnchanged

\* the host hands in the video metadata once it has loaded it
VideoArrives(m) ==
  /\ mounted
  /\ <<videoStartTime, videoDuration>> = <<0, 0>>
  /\ m # <<0, 0>>
  /\ Become(Settle(Cur, [Cur EXCEPT !.videoStartTime = m[1], !.videoDuration = m[2]]))
  /\ UNCHANGED mounted /\ PageUnchanged /\ CountersUnchanged

\* an active interval timer fires: player.getCurrentTime() returns t and
\* onTimeUpdate(t), the host's setCurrentVideoTime, makes it the
\* currentVideoTime of the page and of the timeline it renders
IntervalFires(tm, t) ==
  /\ tm \in vp.timers
  /\ BecomePlayer(PollTick(Quiet(vp), tm))
  /\ Become(IF mounted THEN Settle(Cur, [Cur EXCEPT !.currentVideoTime = t])
                       ELSE [Cur EXCEPT !.currentVideoTime = t])
  /\ UNCHANGED <<mounted, pageOffset, pageSeekCalls, pg, al, bz>> /\ CountersUnchanged

\* the timer of the page's ready player fires (onTimeUpdate)
TimeUpdate(t) == IntervalFires(ReadyTimer, t)

ComponentUnchanged ==
  UNCHANGED << mounted, clientWidth, reportStartTime, reportEndTime, selectedFightId,
               events, currentVideoTime, offset, videoDuration, videoStartTime,
               eventRequests, zoom, panOffset, isDragging, dragStart, hoveredFight,
               videoOffsetSec, wclOffsetSec, isLocked, isDraggingSync, autoSynced,
               rounded, drawn, listeners,
               offsetCalls, seekCalls, fightSelectCalls >>

Next ==
  \/ Mount
  \/ \E pt \in CanvasPoints : PointerDown(pt)
  \/ \E pt \in MovePoints : PointerMove(pt)
  \/ \E pt \in UpPoints : PointerUp(pt)
  \/ \E confirmed \in BOOLEAN : ToggleLock(confirmed)
  \/ \E m \in VideoMetas : VideoArrives(m)
  \/ \E t \in PlaybackTimes : TimeUpdate(t)
  \/ \E i \in 1..MaxEventRequests, answer \in EventAnswers : EventsArrive(i, answer)

Spec == Init /\ [][Next]_vars

\* the pointer and the wheel, with the video metadata unknown
ZoomNext ==
  \/ Mount
  \/ \E pt \in CanvasPoints : PointerDown(pt)
  \/ \E pt \in MovePoints : PointerMove(pt)
  \/ \E pt \in UpPoints : PointerUp(pt)
  \/ \E x \in WheelXs, zoomIn \in BOOLEAN : Wheel(x, zoomIn)
  \/ \E i \in 1..MaxEventRequests, answer \in EventAnswers : EventsArrive(i, answer)
ZoomSpec == InitOf(Widths, {ReportLengthMs}, {<<0, 0>>}) /\ [][ZoomNext]_vars

\* the view alone (fit, wheel zoom, fight selection) over more viewports and
\* report lengths, with the video metadata unknown
ViewInit == InitOf(ViewWidths, ViewReportLengthsMs, {<<0, 0>>})
ViewWheel(x, zoomIn) == WheelWithin(x, zoomIn, MaxViewWheels)
ViewNext ==
  \/ Mount
  \/ \E pt \in ViewPoints : PointerDown(pt)
  \/ \E pt \in UpPoints : PointerUp(pt)
  \/ \E x \in ViewWheelXs, zoomIn \in BOOLEAN : ViewWheel(x, zoomIn)
  \/ \E i \in 1..MaxEventRequests, answer \in EventAnswers : EventsArrive(i, answer)

ViewSpec == ViewInit /\ [][ViewNext]_vars

\* the pointer alone (mousedown, mousemove, mouseup and the lock toggle), with
\* one more pointer move, and the video metadata unknown
DragInit == InitOf(Widths, {ReportLengthMs}, {<<0, 0>>})
DragPointerMove(pt) == PointerMoveWithin(pt, MaxDragMoves)
DragNext ==
  \/ Mount
  \/ \E pt \in CanvasPoints : PointerDown(pt)
  \/ \E pt \in MovePoints : DragPointerMove(pt)
  \/ \E pt \in UpPoints : PointerUp(pt)
  \/ \E confirmed \in BOOLEAN : ToggleLock(confirmed)
  \/ \E i \in 1..MaxEventRequests, answer \in EventAnswers : EventsArrive(i, answer)

DragSpec == DragInit /\ [][DragNext]_vars

\* the pointer alone, with the component removed and rendered again at any
\* moment
TeardownNext == DragNext \/ Unmount
TeardownSpec == DragInit /\ [][TeardownNext]_vars

\* pointer-downs in the fights row, on and next to the bars, with the wheel
\* (also at the x of the zero-length fight, which stays under the pointer
\* while zoom and pan become rounded numbers)
HitPoints == { <<150, 140>>, <<400, 126>>, <<560, 140>>, <<561, 140>>, <<563, 140>> }
HitWheelXs == {400, 560}
HitWheel(x, zoomIn) == WheelWithin(x, zoomIn, MaxViewWheels)
HitNext ==
  \/ Mount
  \/ \E pt \in HitPoints : PointerDown(pt)
  \/ \E pt \in UpPoints : PointerUp(pt)
  \/ \E x \in HitWheelXs, zoomIn \in BOOLEAN : HitWheel(x, zoomIn)
  \/ \E i \in 1..MaxEventRequests, answer \in EventAnswers : EventsArrive(i, answer)
HitSpec == DragInit /\ [][HitNext]_vars

\* containers of 40 px and less, where containerWidth = clientWidth - 40 is 0
\* or negative: the pointer in the fights row (on fight 1, at the time of
\* the zero-length fight once the view is panned by 30 px, and on the
\* zero-length fight itself at 38 px) and below it, and the wheel
NarrowWidths == {30, 40}
NarrowPoints == { <<20, 140>>, <<26, 140>>, <<38, 140>>, <<30, 220>> }
NarrowMoves == { <<0, 220>> }
NarrowUps == { <<0, 220>> }
NarrowWheelXs == {0}
NarrowInit == InitOf(NarrowWidths, {ReportLengthMs}, {<<0, 0>>})
NarrowNext ==
  \/ Mount
  \/ \E pt \in NarrowPoints : PointerDown(pt)
  \/ \E pt \in NarrowMoves : PointerMove(pt)
  \/ \E pt \in NarrowUps : PointerUp(pt)
  \/ \E x \in NarrowWheelXs, zoomIn \in BOOLEAN : Wheel(x, zoomIn)
  \/ \E i \in 1..MaxEventRequests, answer \in EventAnswers : EventsArrive(i, answer)
NarrowSpec == NarrowInit /\ [][NarrowNext]_vars

\* the pointer alone, moved to the right of the container during drags
EdgePoints == { <<400, 105>>, <<800, 105>>, <<840, 105>> }
EdgePointerMove(pt) == PointerMoveWithin(pt, MaxDragMoves)
EdgeNext ==
  \/ Mount
  \/ \E pt \in CanvasPoints : PointerDown(pt)
  \/ \E pt \in EdgePoints : EdgePointerMove(pt)
  \/ \E pt \in UpPoints : PointerUp(pt)
  \/ \E confirmed \in BOOLEAN : ToggleLock(confirmed)
  \/ \E i \in 1..MaxEventRequests, answer \in EventAnswers : EventsArrive(i, answer)
EdgeSpec == DragInit /\ [][EdgeNext]_vars

\* what changes the picture: the pointer (also hovering over the fights row),
\* the wheel, the lock toggle, the playback time and the events
\* mousedown on the WCL bar, on a fight and on the empty canvas; mousemove
\* during a drag and over the fights row (on a fight, off the fights);
\* mouseup below the canvas
RedrawPoints == { <<400, 105>>, <<400, 140>>, <<400, 220>> }
RedrawMoves == { <<410, 105>>, <<400, 140>>, <<700, 140>> }
RedrawUps == { <<410, 300>> }
RedrawNext ==
  \/ Mount
  \/ \E pt \in RedrawPoints : PointerDown(pt)
  \/ \E pt \in RedrawMoves : PointerMove(pt)
  \/ \E pt \in RedrawUps : PointerUp(pt)
  \/ \E x \in WheelXs, zoomIn \in BOOLEAN : Wheel(x, zoomIn)
  \/ \E confirmed \in BOOLEAN : ToggleLock(confirmed)
  \/ \E t \in PlaybackTimes : TimeUpdate(t)
  \/ \E i \in 1..MaxEventRequests, answer \in EventAnswers : EventsArrive(i, answer)
RedrawInit == InitWith(Widths, {ReportLengthMs}, {<<0, 0>>}, {ReadyPlayer}, {LoadedPage})
RedrawSpec == RedrawInit /\ [][RedrawNext]_vars

\* the video player alone
PlayerInit == InitOf(Widths, {ReportLengthMs}, {<<0, 0>>})
TimelineUnchanged ==
  ComponentUnchanged /\ CountersUnchanged
  /\ UNCHANGED <<pageOffset, pageSeekCalls, pg, al, bz>>

\* the host renders VideoPlayer for a platform and a video
\* (startSeconds 0, the host's setCurrentVideoTime as onTimeUpdate, and an
\* onReady or none)
VideoPlayerMounts(platform, videoId, hasOnReady) ==
  /\ ~vp.rendered /\ vp.mountId < MaxPlayerMounts /\ Len(vp.backends) < MaxBackends
  /\ BecomePlayer(PlayerMount(Quiet(vp), platform,
        PlayerProps(videoId, 0, IF hasOnReady THEN 1 ELSE 0, HostOnTimeUpdate)))
  /\ TimelineUnchanged

\* the host stops rendering it
VideoPlayerUnmounts ==
  /\ vp.rendered
  /\ BecomePlayer(PlayerUnmount(Quiet(vp)))
  /\ TimelineUnchanged

\* the platform prop changes: the child of the old platform is unmounted and
\* the child of the new one mounted in the same commit
PlatformChanges(platform) ==
  /\ vp.rendered /\ platform # vp.platform
  /\ vp.mountId < MaxPlayerMounts /\ Len(vp.backends) < MaxBackends
  /\ BecomePlayer(PlayerMount(ChildUnmount(Quiet(vp)), platform, PropsOf(vp)))
  /\ TimelineUnchanged

\* the videoId prop changes
VideoChanges(videoId) ==
  /\ vp.rendered /\ videoId # vp.videoId /\ Len(vp.backends) < MaxBackends
  /\ BecomePlayer(PropsCommit(vp, [Quiet(vp) EXCEPT !.videoId = videoId]))
  /\ TimelineUnchanged

\* the startSeconds prop changes
StartChanges(startSeconds) ==
  /\ vp.rendered /\ startSeconds # vp.startSeconds /\ Len(vp.backends) < MaxBackends
  /\ BecomePlayer(PropsCommit(vp, [Quiet(vp) EXCEPT !.startSeconds = startSeconds]))
  /\ TimelineUnchanged

\* the embed script of a platform finishes loading
ScriptLoads(platform) ==
  /\ platform \in vp.scripts \ vp.apiLoaded /\ Len(vp.backends) < MaxBackends
  /\ BecomePlayer(ApiLoaded(Quiet(vp), platform))
  /\ TimelineUnchanged

\* a backend instance emits its ready signal
BackendReady(i) ==
  /\ i \in 1..Len(vp.backends) /\ vp.backends[i].status = "pending"
  /\ BecomePlayer(OnReady(Quiet(vp), i))
  /\ TimelineUnchanged

\* the host calls playerRef.current?.seekTo / getCurrentTime: the handle is
\* there while VideoPlayer is rendered, whatever the platform
HostSeeks ==
  /\ vp.rendered
  /\ BecomePlayer(VideoPlayerSeekTo(Quiet(vp)))
  /\ TimelineUnchanged
HostReadsTime ==
  /\ vp.rendered
  /\ BecomePlayer(VideoPlayerGetCurrentTime(Quiet(vp)))
  /\ TimelineUnchanged

PlayerNext ==
  \/ \E platform \in Platforms, videoId \in VideoIds, hasOnReady \in BOOLEAN :
        VideoPlayerMounts(platform, videoId, hasOnReady)
  \/ VideoPlayerUnmounts
  \/ \E platform \in Platforms : PlatformChanges(platform)
  \/ \E videoId \in VideoIds : VideoChanges(videoId)
  \/ \E startSeconds \in StartSeconds : StartChanges(startSeconds)
  \/ \E platform \in Platforms : ScriptLoads(platform)
  \/ \E i \in 1..MaxBackends : BackendReady(i)
  \/ \E id \in 1..MaxBackends, player \in 1..MaxBackends, t \in PlaybackTimes :
        IntervalFires([id |-> id, player |-> player], t)
  \/ HostSeeks
  \/ HostReadsTime

PlayerSpec == PlayerInit /\ [][PlayerNext]_vars

\* the TimelineAligner alone: durations (ms, s), video start times (ms) and
\* pointer positions (clientX) of the exploration
AlignerVideoDurations == {400, 1200}
AlignerVideoStarts == {0, ReportStart - 10 * 1000, ReportStart + 300 * 1000}
AlignerClientXs == {-50, 350, 1000}
\* onOffsetChange is the page's handleOffsetChange: the last offset the step
\* notified becomes the offset of the page
HandleOffsetChange(off, calls) == IF calls = << >> THEN off ELSE calls[Len(calls)]
BecomeAligner(e) ==
  \E r \in {e} : al' = r /\ pageOffset' = HandleOffsetChange(pageOffset, r.offsetCalls)
AlignerUnchanged ==
  ComponentUnchanged /\ CountersUnchanged /\ UNCHANGED <<pageSeekCalls, pg, vp, bz>>

\* the host renders the aligner once the video metadata is there and both
\* durations are known (not 0)
AlignerMounts(duration, startTime) ==
  /\ ~al.mounted
  /\ ReportLengthMs # 0 /\ duration # 0
  /\ BecomeAligner(AlignerMount(
        [NoAligner EXCEPT !.mounted = TRUE, !.wclDuration = ReportLengthMs,
                          !.wclStartTime = ReportStart, !.videoDuration = duration,
                          !.videoStartTime = startTime]))
  /\ AlignerUnchanged

\* the host has loaded the metadata of another video: the mounted aligner
\* is rendered with the new videoDuration and videoStartTime.  Its state is
\* kept (the initialisation ran once), the bar widths and pixelsPerSecond
\* follow the new durations, and the notification effect reports the offset
\* again when pixelsPerSecond changed
AlignerPropsChange(duration, startTime) ==
  /\ al.mounted
  /\ duration # 0
  /\ <<duration, startTime>> # <<al.videoDuration, al.videoStartTime>>
  /\ BecomeAligner(AlignerSettle(al, [AlignerQuiet(al) EXCEPT !.videoDuration = duration,
                                                             !.videoStartTime = startTime]))
  /\ AlignerUnchanged

\* the host stops rendering it (its state stays as it was last)
AlignerUnmounts ==
  /\ al.mounted
  /\ BecomeAligner(AlignerListenCleanup([AlignerQuiet(al) EXCEPT !.mounted = FALSE]))
  /\ AlignerUnchanged

\* mousedown on one of the two bars
AlignerMouseDown(bar) ==
  /\ BarsRendered(al)
  /\ BecomeAligner(AlignerHandleMouseDown(AlignerQuiet(al), bar))
  /\ AlignerUnchanged

\* mousemove anywhere in the document
AlignerMouseMove(clientX) ==
  /\ al.listening
  /\ BecomeAligner(AlignerSettle(al, AlignerHandleMouseMove(AlignerQuiet(al), clientX)))
  /\ AlignerUnchanged

\* mouseup anywhere in the document
AlignerMouseUp ==
  /\ al.listening
  /\ BecomeAligner(AlignerHandleMouseUp(AlignerQuiet(al)))
  /\ AlignerUnchanged

AlignerNext ==
  \/ \E duration \in AlignerVideoDurations, startTime \in AlignerVideoStarts :
        AlignerMounts(duration, startTime)
  \/ \E duration \in AlignerVideoDurations, startTime \in AlignerVideoStarts :
        AlignerPropsChange(duration, startTime)
  \/ AlignerUnmounts
  \/ \E bar \in {"wcl", "video"} : AlignerMouseDown(bar)
  \/ \E clientX \in AlignerClientXs : AlignerMouseMove(clientX)
  \/ AlignerMouseUp
AlignerSpec == PlayerInit /\ [][AlignerNext]_vars

\* ------------------------------------------------------------------------
\* the host pages on their own, from their first render: URL parameters,
\* answers to the report request, the video metadata and fight ids of the
\* exploration
PageFights == {1, 2}
PagePlayers == {"YouTubePlayer", "VideoPlayer"}
PageWclCodes == {1, 2}
PageFightParams == {0, 2}
PageVideoMetadata == { <<ReportStart - 10 * 1000, 400>> }
ReportAnswers == {"ok", "failed"}
PageEventAnswers == {"events", "failed"}
PageClientXs == {350}

\* the commit of a step of the page: the page becomes g, the player and the
\* aligner are mounted or unmounted as g renders them, and an offset the
\* aligner notifies on its mount becomes the offset of the page
PageCommit(g) ==
  /\ pg' = g
  /\ BecomePlayer(RenderPlayer(g, Quiet(vp)))
  /\ BecomeAligner(RenderAligner(g, AlignerQuiet(al)))

\* the URL changes (wclCode or fightId): the report effect starts loadReport
\* (the page shows the spinner in place of its content from then on) and,
\* when the wclCode changed, the events effect sends a request for the fight
\* selected by then
PageParamsChange(wclCode, fightIdParam) ==
  /\ <<wclCode, fightIdParam>> # <<pg.wclCode, pg.fightIdParam>>
  /\ pg.runs < MaxReportLoads
  /\ Len(eventRequests) < MaxEventRequests
  /\ \E g \in {[pg EXCEPT !.wclCode = wclCode, !.fightIdParam = fightIdParam]} :
        /\ PageCommit(loadReport(g))
        /\ Become(IF wclCode # pg.wclCode THEN EventsEffect(g, Cur) ELSE Cur)
  /\ pageSeekCalls' = << >>
  /\ UNCHANGED <<mounted, bz>> /\ CountersUnchanged

\* the answer to the report request of run i arrives, in whatever order:
\* the report and its initial fight (a fight object of that answer, so the
\* events effect sends a request) or the error, and the spinner goes
PageReportAnswers(i, answer) ==
  /\ i \in 1..Len(pg.loads)
  /\ Len(eventRequests) < MaxEventRequests
  /\ PageCommit(ReportAnswered(pg, i, answer))
  /\ Become(IF answer = "ok" THEN PageSelect(pg, Cur, initialFight(pg.loads[i]), TRUE)
                             ELSE Cur)
  /\ pageSeekCalls' = << >>
  /\ UNCHANGED <<mounted, bz>> /\ CountersUnchanged

\* part_004: the answer to the request for the video metadata arrives
\* (setVideoMetadata; a failed request is logged and changes nothing)
PageVideoMetadataLoads(m) ==
  /\ pg.player = "VideoPlayer" /\ pg.videoMetadata = << >>
  /\ PageCommit([pg EXCEPT !.videoMetadata = m])
  /\ pageSeekCalls' = << >>
  /\ UNCHANGED bz /\ ComponentUnchanged /\ CountersUnchanged

\* part_003: the offset is typed into the manual input, which is part of the
\* content of that page
PageSetOffset(v) ==
  /\ ContentShown(pg) /\ pg.player = "YouTubePlayer"
  /\ pageOffset # FromInt(v)
  /\ pageOffset' = FromInt(v)
  /\ pageSeekCalls' = << >>
  /\ BecomePlayer(Quiet(vp))
  /\ UNCHANGED <<pg, al, bz>>
  /\ ComponentUnchanged /\ CountersUnchanged

\* part_003: the "align" button, handleAlignFightStart.  The ref of that page
\* is the YouTubePlayer itself; with the ref set and a fight selected the
\* offset becomes what its getCurrentTime() returns (0 while no player is
\* ready); t is the playback time the backend reports
PageAlignFightStart(t) ==
  /\ ContentShown(pg) /\ pg.player = "YouTubePlayer"
  /\ ChildRef(vp, "youtube") /\ selectedFightId # 0
  /\ pageOffset' = FromInt(CurrentTimeRead(vp, t))
  /\ pageSeekCalls' = << >>
  /\ BecomePlayer(ChildGetCurrentTime(Quiet(vp)))
  /\ UNCHANGED <<pg, al, bz>>
  /\ ComponentUnchanged /\ CountersUnchanged

\* a fight is chosen in the content of the page (the select of part_003, the
\* buttons of part_004): setSelectedFight with the fight object of the report
\* the page holds
PageSelectFight(fid) ==
  /\ ContentShown(pg)
  /\ Len(PageSelect(pg, Cur, fid, FALSE).eventRequests) <= MaxEventRequests
  /\ Become(PageSelect(pg, Cur, fid, FALSE))
  /\ pageSeekCalls' = << >>
  /\ BecomePlayer(Quiet(vp))
  /\ UNCHANGED <<mounted, pageOffset, pg, al, bz>> /\ CountersUnchanged

\* getTimelineEvents: the time of event i on the simple Timeline, in seconds
\* from the start of the selected fight
PageEventTime(i) ==
  Rat(events[i].timestamp - FindFight(selectedFightId).startTime, 1000)

\* event i of the simple Timeline is clicked; handleTimelineClick calls
\* seekTo on the player ref when it is set (the YouTubePlayer of part_003,
\* the VideoPlayer of part_004, whatever its platform)
PageEventClick(i) ==
  /\ ContentShown(pg) /\ vp.rendered
  /\ selectedFightId # 0 /\ i \in 1..Len(events)
  /\ pageSeekCalls' = << [eventTime |-> PageEventTime(i), offset |-> pageOffset,
                          videoTime |-> PageSeekTimeOf(PageEventTime(i), pageOffset)] >>
  /\ BecomePlayer(VideoPlayerSeekTo(Quiet(vp)))
  /\ UNCHANGED <<pageOffset, pg, al, bz>>
  /\ ComponentUnchanged /\ CountersUnchanged

PageInit ==
  InitWith(Widths, {ReportLengthMs}, {<<0, 0>>}, {NoVideoPlayer},
           { FirstPage(player, vodPlatform, wclCode, fightIdParam) :
               player \in PagePlayers, vodPlatform \in Platforms,
               wclCode \in {0, 1}, fightIdParam \in {0} })
PageNext ==
  \/ \E wclCode \in PageWclCodes, fightIdParam \in PageFightParams :
        PageParamsChange(wclCode, fightIdParam)
  \/ \E i \in 1..MaxReportLoads, answer \in ReportAnswers : PageReportAnswers(i, answer)
  \/ \E m \in PageVideoMetadata : PageVideoMetadataLoads(m)
  \/ \E v \in PageOffsets : PageSetOffset(v)
  \/ \E t \in PlaybackTimes : PageAlignFightStart(t)
  \/ \E fid \in PageFights : PageSelectFight(fid)
  \/ \E i \in 1..MaxEventRequests, answer \in PageEventAnswers : EventsArrive(i, answer)
  \/ \E i \in 1..MaxPageEvents : PageEventClick(i)
  \/ \E platform \in Platforms : ScriptLoads(platform)
  \/ \E i \in 1..MaxBackends : BackendReady(i)
  \/ \E bar \in {"video"} : AlignerMouseDown(bar)
  \/ \E clientX \in PageClientXs : AlignerMouseMove(clientX)
  \/ AlignerMouseUp

PageSpec == PageInit /\ [][PageNext]_vars

\* the Blizzard API client alone: single lookups, batches, the achievement
\* updates of the server start and the admin endpoint, the continuations of
\* the runs and the clock
IconBatches ==
  { <<"Ulgrax", "Sikran">>, <<"Sikran", "Sikran">>, <<"Ulgrax", "Sikran", "Ulgrax">> }
BlizzardUnchanged ==
  ComponentUnchanged /\ CountersUnchanged
  /\ UNCHANGED <<pageOffset, pageSeekCalls, pg, vp, al>>
BecomeBlizzard(e) == \E r \in {e} : bz' = r

\* GET /api/boss-icon/:bossName
IconRequest(bossName) ==
  /\ Len(bz.calls) < MaxIconCalls
  /\ Len(bz.calls) + Len(bz.updates) < MaxRuns
  /\ BecomeBlizzard(getBossIconUrl(bz, bossName))
  /\ BlizzardUnchanged

\* a report is served: the icons of its fights' bosses are looked up
IconBatchRequest(bossNames) ==
  /\ Len(bz.calls) + Cardinality(uniqueBossNames(bossNames)) <= MaxIconCalls
  /\ Len(bz.calls) + Cardinality(uniqueBossNames(bossNames)) + Len(bz.updates) <= MaxRuns
  /\ BecomeBlizzard(getBossIconUrls(bz, bossNames))
  /\ BlizzardUnchanged

\* the request a run awaits completes and the run continues
FetchResumes(f, answer) ==
  /\ f \in 1..Len(bz.fetches) /\ bz.fetches[f].stage # "done"
  /\ answer \in AnswersAt(bz.fetches[f].stage)
  /\ BecomeBlizzard(FetchResume(bz, f, answer))
  /\ BlizzardUnchanged

\* the server has connected to the database: initializeIfNeeded()
ServerStarts ==
  /\ ~bz.started /\ Len(bz.updates) < MaxUpdateRuns
  /\ Len(bz.calls) + Len(bz.updates) < MaxRuns
  /\ BecomeBlizzard(initializeIfNeeded(bz))
  /\ BlizzardUnchanged

\* POST /api/admin/update-achievements
AdminUpdate ==
  /\ Len(bz.updates) < MaxUpdateRuns
  /\ Len(bz.calls) + Len(bz.updates) < MaxRuns
  /\ BecomeBlizzard(updateAchievements(bz))
  /\ BlizzardUnchanged

\* the request a run of updateAchievements awaits completes and the run
\* continues
UpdateResumes(u, answer) ==
  /\ u \in 1..Len(bz.updates) /\ bz.updates[u].stage # "done"
  /\ answer \in AnswersAt(bz.updates[u].stage)
  /\ BecomeBlizzard(UpdateResume(bz, u, answer))
  /\ BlizzardUnchanged

\* half an hour passes
ClockTick ==
  /\ bz.now < MaxTicks * ClockStepMs
  /\ BecomeBlizzard([bz EXCEPT !.now = @ + ClockStepMs])
  /\ BlizzardUnchanged

BlizzardNext ==
  \/ \E bossName \in BossNames : IconRequest(bossName)
  \/ \E bossNames \in IconBatches : IconBatchRequest(bossNames)
  \/ \E f \in 1..MaxIconCalls, answer \in Answers : FetchResumes(f, answer)
  \/ ServerStarts
  \/ AdminUpdate
  \/ \E u \in 1..MaxUpdateRuns, answer \in Answers : UpdateResumes(u, answer)
  \/ ClockTick
BlizzardSpec == PlayerInit /\ [][BlizzardNext]_vars

\* the video player alone, where a script that is loading finishes loading
\* and a backend instance that was created emits its ready signal
PlayerProgress ==
  /\ WF_vars(\E platform \in Platforms : ScriptLoads(platform))
  /\ WF_vars(\E i \in 1..MaxBackends : BackendReady(i))
PlayerLiveSpec == PlayerInit /\ [][PlayerNext]_vars /\ PlayerProgress

\* ------------------------------------------------------------------------
\* Properties
\* ------------------------------------------------------------------------
\* the steps of the exploration, by kind
CanvasPointerEvent ==
  \/ \E pt \in CanvasPoints : PointerDown(pt)
  \/ \E pt \in MovePoints : OverCanvas(Cur, pt[1], pt[2]) /\ PointerMove(pt)
  \/ \E pt \in UpPoints : OverCanvas(Cur, pt[1], pt[2]) /\ PointerUp(pt)
DataArrives == Mount \/ \E m \in VideoMetas : VideoArrives(m)

\* both wall-clock start times are known (0 stands for an unknown one)
StartsKnown == videoStartTime # 0 /\ reportStartTime # 0
\* log start minus video start, in ms and in seconds
StartDiffMs == reportStartTime - videoStartTime
StartDiffSec == Rat(StartDiffMs, 1000)
DayMs == dayInSeconds * 1000
\* the offset the two anchors stand for
AnchorOffset == Minus(videoOffsetSec, wclOffsetSec)
\* v is among the values calls, the log of a step, handed to onOffsetChange
Notified(calls, v) == \E i \in 1..Len(calls) : calls[i] = v
LastNotified == offsetCalls[Len(offsetCalls)]

\* C1 (as stated): while Locked, no pointer-down, pointer-move or pointer-up
\* on the canvas starts an anchor drag or changes the video anchor, the log
\* anchor or the offset reported to the host.
C1_LockGate ==
  [][ (isLocked /\ CanvasPointerEvent) =>
        /\ videoOffsetSec' = videoOffsetSec
        /\ wclOffsetSec' = wclOffsetSec
        /\ offset' = offset
        /\ (isDraggingSync = "none" => isDraggingSync' = "none") ]_vars

\* C2: the lock toggle unlocks an auto-synced lock only when the user confirms
\* the warning, and then clears the auto-synced mark; when the user declines,
\* isLocked and autoSynced keep their values; a lock that is not auto-synced and
\* an Unlocked model toggle whatever the answer would be.
C2_UnlockConfirmation ==
  [][ \A confirmed \in BOOLEAN :
        ToggleLock(confirmed) =>
          IF isLocked /\ autoSynced
          THEN IF confirmed
               THEN ~isLocked' /\ ~autoSynced'
               ELSE isLocked' /\ autoSynced'
          ELSE isLocked' = ~isLocked /\ autoSynced' = autoSynced ]_vars

\* an auto-synced lock has been unlocked: the timestamps auto-sync, the model is
\* Unlocked and no longer marked auto-synced
C2_Witness ==
  /\ mounted /\ StartsKnown /\ videoDuration > 0 /\ AbsInt(StartDiffMs) < DayMs
  /\ ~isLocked /\ ~autoSynced

\* C3 (amended): on data arrival, if both start times are known, the video
\* duration is positive and the start times differ by less than one day, the
\* model becomes Locked and auto-synced with offset = logStart - videoStart in
\* seconds, and the host is notified of it; in every other case the arrival
\* leaves the lock state as it was (an Unlocked model stays Unlocked).
C3_AutoSyncInit ==
  [][ DataArrives =>
        IF StartsKnown' /\ videoDuration' > 0 /\ AbsInt(StartDiffMs') < DayMs
        THEN /\ isLocked' /\ autoSynced'
             /\ AnchorOffset' = StartDiffSec'
             /\ offset' = StartDiffSec'
             /\ Notified(offsetCalls', StartDiffSec')
        ELSE isLocked' = isLocked /\ autoSynced' = autoSynced ]_vars

\* start times 86399 s apart have been auto-synced
C3_Witness ==
  /\ mounted /\ StartDiffMs = 86399 * 1000
  /\ isLocked /\ autoSynced /\ offset = <<86399, 1>> /\ Notified(offsetCalls, <<86399, 1>>)

\* C3 (as stated): on data arrival, known start times less than a day apart
\* make the model Locked and auto-synced with offset = logStart - videoStart,
\* the host being notified; more than a day apart, the model is Unlocked.
C3_AsStated ==
  [][ DataArrives =>
        /\ (StartsKnown' /\ AbsInt(StartDiffMs') < DayMs) =>
             /\ isLocked' /\ autoSynced'
             /\ offset' = StartDiffSec'
             /\ Notified(offsetCalls', StartDiffSec')
        /\ (StartsKnown' /\ AbsInt(StartDiffMs') > DayMs) => ~isLocked' ]_vars

\* C4: every seek request emitted by a click on an event marker satisfies
\* emitted video time + offset = the event's log time, and when playback is at
\* the emitted video time the current-time indicator stands at that log time
\* (it is drawn where the event marker is drawn), whatever offset auto-sync or
\* anchor dragging has produced.
C4_OffsetSymmetry ==
  \A i \in 1..Len(seekCalls) :
    /\ Plus(seekCalls[i].videoTime, seekCalls[i].offset) = seekCalls[i].logTime
    /\ wclTimeAt(seekCalls[i].videoTime, offset) = seekCalls[i].logTime
    /\ indicatorX(Cur, seekCalls[i].videoTime)
         = timeToX(Cur, Plus(seekCalls[i].logTime, wclOffsetSec))

\* an event has been clicked under an offset that a released drag of the log
\* anchor produced
C4_Witness ==
  /\ Len(seekCalls) > 0 /\ isDraggingSync = "none" /\ ~autoSynced
  /\ wclOffsetSec # Zero /\ seekCalls[1].offset = AnchorOffset

\* C5 (amended): clicking an event marker whose log time is 305.0 s while the
\* offset is -10.0 s invokes the seek callback with video time 315.0 s.
C5_SeekExample ==
  \A i \in 1..Len(seekCalls) :
    (seekCalls[i].logTime = <<305, 1>> /\ seekCalls[i].offset = <<-10, 1>>)
      => seekCalls[i].videoTime = <<315, 1>>

\* the event at 305 s has been clicked with offset -10 s
C5_Witness ==
  \E i \in 1..Len(seekCalls) :
    seekCalls[i].logTime = <<305, 1>> /\ seekCalls[i].offset = <<-10, 1>>

\* C5 (as stated): that click invokes the seek callback with video time 295.0 s.
C5_AsStated ==
  \A i \in 1..Len(seekCalls) :
    (seekCalls[i].logTime = <<305, 1>> /\ seekCalls[i].offset = <<-10, 1>>)
      => seekCalls[i].videoTime = <<295, 1>>

\* C6 (as stated): every path from a clicked event's time to a video seek time
\* uses videoTime = logTime - offset; here the host page that forwards the seek
\* of the simple timeline to the player.
C6_SingleConvention ==
  \A i \in 1..Len(pageSeekCalls) :
    pageSeekCalls[i].videoTime = Minus(pageSeekCalls[i].eventTime, pageSeekCalls[i].offset)

\* C7 (as stated): while Unlocked with an anchor drag active, a pointer move of
\* dx pixels from the previous pointer position moves the dragged anchor by
\* exactly dx/zoom seconds and leaves the other anchor alone, over the canvas
\* and outside it.
C7_DragStep ==
  [][ \A pt \in MovePoints :
        (~isLocked /\ isDraggingSync # "none" /\ PointerMove(pt)) =>
          IF isDraggingSync = "video"
          THEN /\ videoOffsetSec' = Plus(videoOffsetSec, Over(FromInt(pt[1] - dragStart.x), zoom))
               /\ wclOffsetSec' = wclOffsetSec
          ELSE /\ wclOffsetSec' = Plus(wclOffsetSec, Over(FromInt(pt[1] - dragStart.x), zoom))
               /\ videoOffsetSec' = videoOffsetSec ]_vars

\* C8: a pointer-up that ends an anchor drag (over the canvas or outside it,
\* also when the model was locked in the middle of the drag) is followed by
\* an onOffsetChange notification whose last value is videoAnchor - logAnchor,
\* and the host holds that value.
C8_ReleaseNotification ==
  [][ ( /\ isDraggingSync # "none"
        /\ \E pt \in UpPoints : PointerUp(pt) ) =>
        /\ isDraggingSync' = "none"
        /\ offsetCalls' # << >>
        /\ LastNotified' = AnchorOffset'
        /\ offset' = AnchorOffset' ]_vars

\* a drag of the log anchor has just been released while Unlocked: the step
\* notified the host of the new difference of the anchors
C8_Witness ==
  /\ isDraggingSync = "none" /\ ~isLocked /\ wclOffsetSec # Zero
  /\ offsetCalls = << AnchorOffset >>

\* C9 (as stated): between entering Locked and the next unlock no operation
\* changes the video anchor, the log anchor or the offset reported to the host.
C9_LockedHeldFixed ==
  [][ (isLocked /\ isLocked') =>
        /\ videoOffsetSec' = videoOffsetSec
        /\ wclOffsetSec' = wclOffsetSec
        /\ offset' = offset ]_vars

\* C10 (as stated): when auto-sync does not apply and the user has neither
\* moved an anchor nor locked, a data arrival places the video lane before the
\* log lane without reporting that placement to the host.
C10_PlacementNotReported ==
  [][ ( /\ DataArrives
        /\ ~(StartsKnown' /\ AbsInt(StartDiffMs') < DayMs)
        /\ videoDuration' > 0
        /\ ~isLocked /\ ~isLocked' /\ nMoves = 0 ) =>
        /\ videoOffsetSec' = FromInt(-videoDuration' - 60)
        /\ ~Notified(offsetCalls', FromInt(-videoDuration' - 60))
        /\ offset' = offset ]_vars

\* ------------------------------------------------------------------------
\* View: zoom, pan, fit and auto-zoom
\* ------------------------------------------------------------------------
\* C11 (pointer-anchored zoom): for every wheel event at pixel x, from any
\* zoom and pan, the timeline time under x after the event equals the time
\* under x before it, also when the new zoom is clamped.
C11_PointerAnchoredZoom ==
  [][\A x \in ViewWheelXs, zoomIn \in BOOLEAN :
        ViewWheel(x, zoomIn) => xToTime(Cur', FromInt(x)) = xToTime(Cur, FromInt(x))]_vars

\* a zoom-in at one pixel followed by a zoom-out at another that was clamped
\* to the fit floor: the zoom is back at the floor and the pan has moved
C11_Witness ==
  /\ mounted /\ nWheels = 2 /\ selectedFightId = 0
  /\ zoom = minZoomForReport(Cur)
  /\ Less(MIN_ZOOM, zoom) /\ Less(zoom, MAX_ZOOM)
  /\ panOffset # Times(FromInt(-EDGE_PADDING_SEC), zoom)

\* C12 (zoom clamp): in every reachable state MIN_ZOOM <= zoom <= MAX_ZOOM,
\* after any sequence of initial fit, wheel events and fight selections, for
\* any report duration, fight duration and viewport width.
C12_ZoomClamp == Leq(MIN_ZOOM, zoom) /\ Leq(zoom, MAX_ZOOM)

\* C13 (as stated): after any wheel event zoom is at least the fit zoom, and
\* the report duration plus the edge padding on both sides, rendered at the
\* resulting zoom, is never narrower than the viewport:
\* (reportDuration + 2*EDGE_PADDING_SEC) * zoom >= viewport width.
C13_WheelFitFloor ==
  [][\A x \in NarrowWheelXs, zoomIn \in BOOLEAN :
        Wheel(x, zoomIn) =>
          /\ Leq(initialZoom(Cur), zoom')
          /\ Leq(FromInt(clientWidth),
                 Times(Plus(reportDuration(Cur), FromInt(2 * EDGE_PADDING_SEC)), zoom'))]_vars

\* C14 (fit-to-duration): on first data arrival the initial zoom equals
\* (viewportWidth - 40) / (reportDuration + 2*edgePadding), clamped to
\* [MIN_ZOOM, MAX_ZOOM]; for reportDuration = 600 s, edgePadding = 60 s and
\* viewportWidth = 760 px the initial zoom is exactly 1.0 px/s (and for
\* viewportWidth = 720 px it is 680/720).
C14_FitToDuration ==
  [][Mount =>
        /\ zoom' = RMin(MAX_ZOOM,
                        RMax(MIN_ZOOM,
                             Over(FromInt(clientWidth - 40),
                                  Plus(Rat(reportEndTime - reportStartTime, 1000),
                                       FromInt(2 * 60)))))
        /\ (reportEndTime - reportStartTime = 600 * 1000 /\ clientWidth = 760)
              => zoom' = <<1, 1>>
        /\ (reportEndTime - reportStartTime = 600 * 1000 /\ clientWidth = 720)
              => zoom' = Rat(680, 720)]_vars

\* the first render of a 720 px wide viewport over a 600 s report
C14_Witness ==
  /\ mounted /\ nWheels = 0 /\ selectedFightId = 0
  /\ clientWidth = 720 /\ reportEndTime - reportStartTime = 600 * 1000
  /\ zoom = Rat(680, 720) /\ panOffset = Times(FromInt(-60), zoom)

\* C14 as stated: the initial zoom equals viewportWidth / (reportDuration +
\* 2*edgePadding), clamped; for 600 s, 60 s and 720 px it is exactly 1.0 px/s.
C14_AsStated ==
  [][Mount =>
        /\ zoom' = RMin(MAX_ZOOM,
                        RMax(MIN_ZOOM,
                             Over(FromInt(clientWidth),
                                  Plus(Rat(reportEndTime - reportStartTime, 1000),
                                       FromInt(2 * 60)))))
        /\ (reportEndTime - reportStartTime = 600 * 1000 /\ clientWidth = 720)
              => zoom' = <<1, 1>>]_vars

\* the step changes the fight selection to an existing fight
FightSelectionChanges ==
  /\ selectedFightId' # selectedFightId
  /\ FindFight(selectedFightId').id # 0
  /\ \E pt \in ViewPoints \cup CanvasPoints : PointerDown(pt)
\* duration in seconds of the fight with the given id
FightSeconds(fid) == Rat(FindFight(fid).endTime - FindFight(fid).startTime, 1000)

\* C15 (auto-zoom-to-fight zoom): when the fight selection changes to a fight
\* of duration d seconds with viewport width W, zoom becomes
\* min(MAX_ZOOM, max(MIN_ZOOM, (W - 40)/d)); d = 120 and W = 800 give
\* (800 - 40)/120.
C15_AutoZoom ==
  [][FightSelectionChanges =>
        /\ zoom' = RMin(MAX_ZOOM,
                        RMax(MIN_ZOOM,
                             Over(FromInt(clientWidth - 40), FightSeconds(selectedFightId'))))
        /\ (FightSeconds(selectedFightId') = FromInt(120) /\ clientWidth = 800)
              => zoom' = Rat(800 - 40, 120)]_vars

\* a 120 s fight selected in an 800 px wide viewport
C15_Witness ==
  /\ mounted /\ clientWidth = 800 /\ selectedFightId = 2 /\ nWheels = 0
  /\ fightSelectCalls = <<2>>
  /\ zoom = Rat(760, 120)

\* the time, on the timeline, of the middle of the bar drawn for the fight
\* with the given id: the bar starts at the fight's start shifted by the log
\* anchor and is as long as the fight
FightMidpoint(fid, logAnchor) ==
  Plus(Plus(Rat(FindFight(fid).startTime, 1000), logAnchor),
       Over(FightSeconds(fid), FromInt(2)))

\* C16 (as stated): after the fight selection changes, pan is set so that the
\* selected fight is horizontally centred in the viewport: the fight's time
\* midpoint (as drawn, including the log-anchor shift) maps to pixel
\* viewportWidth/2.
C16_AutoZoomCentre ==
  [][FightSelectionChanges =>
        timeToX(Cur', FightMidpoint(selectedFightId', wclOffsetSec'))
          = Rat(clientWidth, 2)]_vars

\* the zoom that fits a fight of d seconds into a viewport W px wide, and the
\* pan that centres a fight starting at s seconds, with the log anchor at
\* logAnchor seconds, at that zoom
FittedZoom(d, W) == RMin(MAX_ZOOM, RMax(MIN_ZOOM, Over(FromInt(W - 40), d)))
CentredPan(s, d, W, logAnchor) ==
  Minus(Times(Plus(Plus(s, logAnchor), Over(d, FromInt(2))), FittedZoom(d, W)),
        Rat(W - 40, 2))

\* C17 (auto-zoom determinism): the zoom and pan produced by auto-zoom-to-
\* fight are a function of the selected fight, the viewport width and the
\* position of the log anchor alone - two runs that change the selection to
\* the same fight at the same viewport width and log-anchor position end with
\* the same zoom and pan, whatever the earlier zoom and pan, the video anchor
\* or the interaction history.
C17_AutoZoomDeterminism ==
  [][FightSelectionChanges =>
        /\ zoom' = FittedZoom(FightSeconds(selectedFightId'), clientWidth)
        /\ panOffset' = CentredPan(Rat(FindFight(selectedFightId').startTime, 1000),
                                   FightSeconds(selectedFightId'), clientWidth,
                                   wclOffsetSec')]_vars

\* a fight selected after a wheel event and a drag of the log anchor
C17_Witness ==
  /\ mounted /\ nWheels = 1 /\ nMoves = 1 /\ wclOffsetSec # Zero
  /\ selectedFightId = 2 /\ fightSelectCalls = <<2>>
  /\ zoom = FittedZoom(FromInt(120), clientWidth)
  /\ panOffset = CentredPan(FromInt(238), FromInt(120), clientWidth, wclOffsetSec)

\* C17 as stated: zoom and pan are a function of the selected fight and the
\* viewport width alone.  A selection made with the log anchor at 0 is
\* reachable, which fixes that function to the values below.
C17_AsStated ==
  [][FightSelectionChanges =>
        /\ zoom' = FittedZoom(FightSeconds(selectedFightId'), clientWidth)
        /\ panOffset' = CentredPan(Rat(FindFight(selectedFightId').startTime, 1000),
                                   FightSeconds(selectedFightId'), clientWidth,
                                   Zero)]_vars

\* ------------------------------------------------------------------------
\* Pointer input
\* ------------------------------------------------------------------------
\* what lies under the pixel <<x, y>>: an anchor bar that can be dragged, the
\* fights (by index) whose bar spans x in the Fights lane, and the events (by
\* index) of the selected fight whose marker is within 6 px; where the pixel
\* is exactly on an edge and the edge is a rounded number, e (one of
\* Roundings) says on which side the code finds it
AnchorUnder(x, y, e) ==
  IF isLocked THEN "none"
  ELSE IF OnVideoBar(Cur, x, y, e.video) THEN "video"
  ELSE IF OnWclBar(Cur, x, y, e.wcl) THEN "wcl"
  ELSE "none"
FightsUnder(x, y, e) ==
  IF InFightsRow(y)
  THEN {i \in 1..Len(Fights) :
          TimeInFight(Cur, Fights[i], xToTime(Cur, FromInt(x)), e.fight)}
  ELSE {}
EventsUnder(x, y, e) ==
  IF selectedFightId # 0
  THEN {i \in 1..Len(events) : NearEvent(Cur, events[i], x, y, e.event[i])}
  ELSE {}
NoDragStarted == isDragging' = isDragging /\ isDraggingSync' = isDraggingSync

\* C18 (pointer-down resolution): every pointer-down resolves to exactly one
\* action chosen in priority order - (a) Unlocked and on an anchor bar: that
\* anchor's drag starts; (b) else on a fight bar in the Fights lane:
\* onFightSelect is emitted for that fight and no drag starts; (c) else a
\* fight is selected and the pointer is within 6 px of an event marker: one
\* seek request is emitted and no drag starts; (d) otherwise a pan drag
\* starts.  Of several fights or events under the pixel the first in dataset
\* order is chosen.
C18_PointerDownResolution ==
  [][\A pt \in CanvasPoints : \A e \in Roundings(Cur, pt[1], pt[2]) :
        PointerDownAs(pt, e) =>
          IF AnchorUnder(pt[1], pt[2], e) # "none"
          THEN /\ isDraggingSync' = AnchorUnder(pt[1], pt[2], e)
               /\ isDragging' = isDragging
               /\ fightSelectCalls' = << >> /\ seekCalls' = << >>
          ELSE IF FightsUnder(pt[1], pt[2], e) # {}
          THEN /\ \E i \in FightsUnder(pt[1], pt[2], e) :
                     /\ \A j \in FightsUnder(pt[1], pt[2], e) : i <= j
                     /\ fightSelectCalls' = <<Fights[i].id>>
               /\ seekCalls' = << >>
               /\ NoDragStarted
          ELSE IF EventsUnder(pt[1], pt[2], e) # {}
          THEN /\ \E i \in EventsUnder(pt[1], pt[2], e) :
                     /\ \A j \in EventsUnder(pt[1], pt[2], e) : i <= j
                     /\ Len(seekCalls') = 1
                     /\ seekCalls'[1].logTime = Rat(events[i].timestamp, 1000)
               /\ fightSelectCalls' = << >>
               /\ NoDragStarted
          ELSE /\ isDragging' /\ isDraggingSync' = isDraggingSync
               /\ dragStart' = [x |-> pt[1], panOffset |-> panOffset]
               /\ fightSelectCalls' = << >> /\ seekCalls' = << >>]_vars

\* a pointer-down within 6 px of two event markers of the selected fight has
\* requested one seek, to the first of them, and started no drag
C18_Witness ==
  /\ mounted /\ selectedFightId = 2 /\ Len(events) = 2
  /\ WithinRadius(Cur, events[1], 400, 220) /\ WithinRadius(Cur, events[2], 400, 220)
  /\ Len(seekCalls) = 1 /\ seekCalls[1].logTime = Rat(events[1].timestamp, 1000)
  /\ ~isDragging /\ isDraggingSync = "none"

\* every pointer-down of the exploration is at this x
PointerDownX == CHOOSE x \in {pt[1] : pt \in CanvasPoints} : TRUE

\* C19 (pan drag): while a pan drag is active, after every pointer move
\* pan = startPan - (currentPointerX - startPointerX), with startPan and
\* startPointerX as recorded at pointer-down, whether the pointer is over the
\* canvas or has left it; zoom and both anchors are unchanged by the move.
C19_PanDrag ==
  [][\A pt \in MovePoints :
        (isDragging /\ DragPointerMove(pt)) =>
          /\ panOffset' = Minus(dragStart.panOffset, FromInt(pt[1] - PointerDownX))
          /\ zoom' = zoom
          /\ wclOffsetSec' = wclOffsetSec /\ videoOffsetSec' = videoOffsetSec]_vars

\* ------------------------------------------------------------------------
\* Time markers
\* ------------------------------------------------------------------------
\* the candidate steps, in seconds, and those of them that put the markers
\* at least 100 px apart at the zoom z
TimeSteps == {10, 30, 60, 120, 300, 600}
WideEnough(z) == {s \in TimeSteps : Leq(FromInt(100), Times(FromInt(s), z))}

\* C20 (tick spacing): for every zoom in [MIN_ZOOM, MAX_ZOOM],
\* calculateTimeStep(zoom) is the smallest step in {10, 30, 60, 120, 300, 600}
\* with step * zoom >= 100, and 600 when no candidate satisfies it.
C20_TickSpacing ==
  (Leq(MIN_ZOOM, zoom) /\ Leq(zoom, MAX_ZOOM)) =>
     IF WideEnough(zoom) = {}
     THEN timeStep(Cur) = 600
     ELSE /\ timeStep(Cur) \in WideEnough(zoom)
          /\ \A s \in WideEnough(zoom) : timeStep(Cur) <= s

\* a draw at the minimum zoom, where no candidate puts the markers 100 px
\* apart
C20_Witness ==
  /\ mounted /\ zoom = MIN_ZOOM
  /\ WideEnough(zoom) = {} /\ timeStep(Cur) = 600

\* ------------------------------------------------------------------------
\* The mapper
\* ------------------------------------------------------------------------
\* times (s from the report start) and pixel coordinates the mapper is
\* applied to
MapperTimes == { Rat(-60, 1), Zero, Rat(411, 2), Rat(305500, 1000), Rat(7260, 1) }
MapperPixels == { Rat(-5, 1), Zero, Rat(1, 2), Rat(400, 1), Rat(6999, 1) }

\* C21: for every zoom > 0 and every pan the view reaches, xToTime and timeToX
\* are inverses of each other: xToTime(timeToX(t)) = t for every time t and
\* timeToX(xToTime(x)) = x for every pixel x.
C21_MapperRoundTrip ==
  Less(Zero, zoom) =>
    /\ \A t \in MapperTimes : xToTime(Cur, timeToX(Cur, t)) = t
    /\ \A x \in MapperPixels : timeToX(Cur, xToTime(Cur, x)) = x

\* a zoomed and panned view (neither the initial zoom 1 nor pan 0, and a zoom
\* that is not a whole number), on which both round trips are taken
C21_Witness ==
  /\ mounted /\ nWheels > 0
  /\ Less(Zero, zoom) /\ zoom[2] # 1 /\ panOffset # Zero
  /\ \E t \in MapperTimes : timeToX(Cur, t) # t /\ xToTime(Cur, timeToX(Cur, t)) = t
  /\ \E x \in MapperPixels : xToTime(Cur, x) # x /\ timeToX(Cur, xToTime(Cur, x)) = x

\* ------------------------------------------------------------------------
\* The canvas
\* ------------------------------------------------------------------------
\* the rectangle a fight bar is rendered as, [x, x + max(w, 2)], lies entirely
\* outside [0, width] in the painted view
FightRectOutside(fight) ==
  \/ Less(Plus(fightX(drawn, fight), RMax(fightW(drawn, fight), FromInt(2))), Zero)
  \/ Less(width(drawn), fightX(drawn, fight))
\* C22 (as stated): in every draw, a fight bar whose rendered rectangle lies
\* entirely outside [0, viewportWidth] produces no draw call, and every event
\* marker and current-time cursor that is drawn has its x within
\* [0, viewportWidth].
C22_Culling ==
  mounted =>
    \A e \in DrawRoundings(drawn) :
      /\ \A i \in 1..Len(Fights) :
            FightRectOutside(Fights[i]) =>
              Fights[i].id \notin { call.id : call \in FightCalls(drawn, e) }
      /\ \A call \in EventCalls(drawn, e) : OnCanvas(drawn, call.x)
      /\ \A call \in IndicatorCalls(drawn, e) : OnCanvas(drawn, call.x)

\* ------------------------------------------------------------------------
\* The video players
\* ------------------------------------------------------------------------
\* the backend instances the active interval timers poll
Polled == { t.player : t \in vp.timers }
Destroyed(i) == vp.backends[i].status = "destroyed"
CallsOf(op) == { k \in 1..Len(vp.calls) : vp.calls[k].op = op }

\* C23: a player component has at most one active poll at any moment, none
\* once it is unmounted, the poll is on the current player instance, and no
\* poll reads getCurrentTime from a destroyed player.
C23_PollLifecycle ==
  /\ Cardinality(vp.timers) <= 1
  /\ ~vp.mounted => vp.timers = {}
  /\ Polled \subseteq {vp.player}
  /\ \A i \in Polled : ~Destroyed(i)
  /\ \A k \in CallsOf("getCurrentTime") : vp.calls[k].status # "destroyed"

\* ------------------------------------------------------------------------
\* The document listeners
\* ------------------------------------------------------------------------
\* the drags in progress on the mounted component
ActiveDrags ==
  (IF mounted /\ isDragging THEN {"pan"} ELSE {})
  \cup (IF mounted /\ isDraggingSync # "none" THEN {"sync"} ELSE {})

\* C24: the document-level mousemove / mouseup listeners of the timeline are
\* registered exactly while a pan drag or an anchor drag is active on the
\* mounted component: acquired at drag start, released at pointer-up and at
\* unmount, including an unmount in the middle of a drag.
C24_ScopedDragListeners == listeners = ActiveDrags

\* the component was removed in the middle of a pan drag that had moved the
\* view: its last state is still dragging, and no listener is left
C24_Witness ==
  /\ ~mounted /\ isDragging /\ nMoves > 0
  /\ listeners = {}

\* C25: once a player component is unmounted, none of its host callbacks
\* (onReady, onTimeUpdate) is invoked and no state update is issued by it:
\* every such call is made by a mounted component.
C25_NoCallbackAfterTeardown ==
  \A k \in CallsOf("onReady") \cup CallsOf("onTimeUpdate") \cup CallsOf("setState") :
    vp.calls[k].live

\* C26: every change to what is visible (zoom, pan, either anchor, lock state,
\* active anchor drag, selected or hovered fight, current video time, host
\* offset, events) is followed by a redraw with the new values before the
\* next event is processed: after every step the canvas shows the draw of the
\* current props and state.
C26_RedrawOnChange == mounted => drawn = Painted(Cur)

\* a view that was zoomed, has a fight selected and another state hovered,
\* shows a later playback time, and whose canvas is up to date
C26_Witness ==
  /\ mounted /\ nWheels > 0
  /\ selectedFightId # 0 /\ hoveredFight # 0 /\ currentVideoTime # 0
  /\ drawn = Painted(Cur)
  /\ \E e \in DrawRoundings(drawn) :
        draw(drawn, e).fights # {} /\ draw(drawn, e).indicator # {}

\* ------------------------------------------------------------------------
\* Divisors
\* ------------------------------------------------------------------------
\* the divisors of the divisions the effects, the mapper and draw() of the
\* current render execute: the selected fight's duration (auto-zoom), the
\* padded report duration (initial fit, wheel), zoom (xToTime,
\* calculateTimeStep, drag deltas) and the tick step
AutoZoomDivisors ==
  IF selectedFightId # 0 /\ FindFight(selectedFightId).id # 0
  THEN {FightSeconds(selectedFightId)} ELSE {}
DivisorsUsed ==
  AutoZoomDivisors \cup {totalDurationWithPadding(Cur), zoom, FromInt(timeStep(Cur))}
\* C27: in the timeline no division is executed with a zero or non-finite
\* divisor: every duration, zoom or step the mounted component divides by is
\* finite and not zero.
C27_DivisorGuard ==
  mounted => \A d \in DivisorsUsed : Finite(d) /\ d # Zero

\* ------------------------------------------------------------------------
\* Dragging beyond the container
\* ------------------------------------------------------------------------
\* the pointer x is at or beyond the right edge of the container
BeyondEdge(x) == x >= clientWidth

\* C28: during an anchor drag the pointer x is clamped to the container
\* before it is converted to time: once the pointer is at or beyond the right
\* edge, moving it further out does not move either anchor.
C28_OutOfRangeDrag ==
  [][ \A pt \in EdgePoints :
        ( /\ isDraggingSync # "none" /\ ~isDragging
          /\ BeyondEdge(dragStart.x) /\ BeyondEdge(pt[1])
          /\ EdgePointerMove(pt) )
        => wclOffsetSec' = wclOffsetSec /\ videoOffsetSec' = videoOffsetSec ]_vars

\* the calls of the step just taken that reach a backend instance
Forwarded(v) == { k \in 1..Len(v.calls) : v.calls[k].op \in {"seek", "getCurrentTime"} }
ZeroReturned(v) == [op |-> "return 0", backend |-> 0, status |-> "host", live |-> TRUE]

\* the player is not ready for a command of the host: VideoPlayer renders no
\* child (unsupported platform), or its child has not seen the ready signal
NotReady(v) == ~v.mounted \/ ~v.isReady

\* C29: no seek or current-time read reaches a backend instance that has not
\* emitted its ready signal; before ready (and for a platform without a
\* player) a seekTo is dropped and getCurrentTime returns 0; and a command of
\* the host reaches only an instance of the active platform.
C29_ReadyBeforeUse ==
  [][ /\ \A k \in Forwarded(vp') : vp'.calls[k].status # "pending"
      /\ (HostSeeks /\ NotReady(vp)) => vp'.calls = << >>
      /\ (HostReadsTime /\ NotReady(vp)) => vp'.calls = << ZeroReturned(vp) >>
      /\ (HostSeeks \/ HostReadsTime) =>
            \A k \in Forwarded(vp') :
              /\ Supported(vp.platform)
              /\ vp.backends[vp'.calls[k].backend].platform = vp.platform ]_vars

\* VideoPlayer is rendered for a platform it has no player for while an
\* instance created for the platform rendered before has emitted its ready
\* signal: a current-time read of the host returns 0 and reaches no instance
C29_Witness ==
  /\ vp.rendered /\ ~Supported(vp.platform)
  /\ vp.calls = << ZeroReturned(vp) >>
  /\ \E i \in 1..Len(vp.backends) : vp.backends[i].status = "ready"

\* ------------------------------------------------------------------------
\* Hit-testing against the canvas
\* ------------------------------------------------------------------------
\* the fights whose rectangle on the canvas, as last drawn, contains (x, y);
\* none while there is no canvas (e is one of the DrawRoundings of the draw)
InRect(call, x, y) ==
  /\ Leq(call.x, FromInt(x)) /\ Leq(FromInt(x), Plus(call.x, call.w))
  /\ y >= PADDING_TOP + SYNC_ROW_HEIGHT * 2 + 5
  /\ y <= PADDING_TOP + SYNC_ROW_HEIGHT * 2 + 5 + (FIGHT_ROW_HEIGHT - 10)
BarsAt(x, y, e) ==
  IF mounted THEN { call.id : call \in {k \in FightCalls(drawn, e) : InRect(k, x, y)} }
  ELSE {}
DrawnAs == IF mounted THEN DrawRoundings(drawn) ELSE {}

\* C30: a pointer-down at a point inside the drawn rectangle of a fight bar
\* (of exactly one bar) selects that fight, also when the bar is a zero- or
\* near-zero-duration fight drawn at the 2 px minimum width.
C30_MinWidthBarsClickable ==
  [][ \A pt \in HitPoints : \A e \in DrawnAs : \A fid \in BarsAt(pt[1], pt[2], e) :
        (BarsAt(pt[1], pt[2], e) = {fid} /\ PointerDown(pt))
        => selectedFightId' = fid /\ fightSelectCalls' = <<fid>> ]_vars

\* ------------------------------------------------------------------------
\* What re-triggers auto-zoom
\* ------------------------------------------------------------------------
\* a pointer move while an anchor bar (and nothing else) is dragged, and while
\* the view (and nothing else) is dragged
AnchorDragMove ==
  /\ isDraggingSync # "none" /\ ~isDragging
  /\ \E pt \in MovePoints : PointerMove(pt)
PanDragMoveTo(pt) ==
  /\ isDragging /\ isDraggingSync = "none"
  /\ PointerMove(pt)
ViewKept == zoom' = zoom /\ panOffset' = panOffset

\* C31 (as stated): zoom and pan are recomputed by the auto-zoom transform
\* only when the selected fight changes.  In a step that keeps the selection,
\* a playback-time update and an anchor drag (video or log) leave zoom and pan
\* unchanged, a wheel event leaves the zoom and pan of the wheel handler, and
\* a pan drag leaves the zoom alone and the pan where the drag puts it.
C31_AutoZoomOnlyOnSelection ==
  [][ (mounted /\ selectedFightId' = selectedFightId) =>
        /\ (\E t \in PlaybackTimes : TimeUpdate(t)) => ViewKept
        /\ AnchorDragMove => ViewKept
        /\ \A x \in WheelXs, zoomIn \in BOOLEAN :
             Wheel(x, zoomIn) =>
               /\ zoom' = handleWheel(Cur, x, zoomIn).zoom
               /\ panOffset' = handleWheel(Cur, x, zoomIn).panOffset
        /\ \A pt \in MovePoints :
             PanDragMoveTo(pt) =>
               /\ zoom' = zoom
               /\ panOffset' = Minus(dragStart.panOffset, FromInt(pt[1] - dragStart.x)) ]_vars

\* ------------------------------------------------------------------------
\* Lock state and drag state
\* ------------------------------------------------------------------------
\* C32: in every reachable state autoSynced implies isLocked: the mark is set
\* only together with the lock and is cleared by the step that unlocks an
\* auto-synced lock.
C32_AutoSyncedImpliesLocked == autoSynced => isLocked

\* the timestamps have auto-synced and the model is still Locked and marked,
\* with the offset of the timestamps
C32_Witness ==
  /\ mounted /\ autoSynced /\ isLocked
  /\ StartsKnown /\ AnchorOffset = StartDiffSec

\* C33 (as stated): in every reachable state a Locked model has no anchor
\* drag in progress, also when the lock toggle is clicked or the auto-sync
\* data arrives in the middle of an anchor drag.
C33_LockedMeansNoAnchorDrag == isLocked => isDraggingSync = "none"

\* C34 (as stated): in every reachable state at most one of the pan drag, the
\* video-anchor drag and the log-anchor drag is active, for any sequence of
\* pointer-down, pointer-move and pointer-up events, a second pointer-down
\* before the first pointer-up included.
C34_ExclusiveDragModes == ~(isDragging /\ isDraggingSync # "none")

\* ------------------------------------------------------------------------
\* The offset the host holds
\* ------------------------------------------------------------------------
\* C35: whenever the component is rendered, no anchor drag is in progress and
\* the effects have run, the last offset delivered through onOffsetChange (the
\* value the host holds and hands back as the offset prop) is videoAnchor -
\* logAnchor, so the current-time indicator at playback time t stands at the
\* left edge of the video bar plus t * zoom.
C35_HostOffsetConsistent ==
  (mounted /\ isDraggingSync = "none") =>
    /\ offset = AnchorOffset
    /\ offsetCalls # << >> => LastNotified = AnchorOffset
    /\ indicatorX(Cur, FromInt(currentVideoTime))
         = Plus(videoX(Cur), Times(FromInt(currentVideoTime), zoom))

\* a drag of the log anchor has been released and playback is at 315 s: the
\* host holds the difference of the anchors, which is not 0
C35_Witness ==
  /\ mounted /\ isDraggingSync = "none" /\ ~autoSynced
  /\ wclOffsetSec # Zero /\ currentVideoTime = 315
  /\ offset = AnchorOffset /\ offset # Zero

\* ------------------------------------------------------------------------
\* Replacement of the player
\* ------------------------------------------------------------------------
\* the component holds a player instance that has been destroyed: the state
\* after the videoId of a component with a ready player changed (the cleanup
\* of the effect that depends on videoId has run on the player it closed over)
HoldsDestroyedPlayer ==
  vp.mounted /\ vp.player # 0 /\ vp.backends[vp.player].status = "destroyed"
\* the component holds a ready, non-destroyed instance for its videoId
HoldsLivePlayer ==
  /\ vp.mounted /\ vp.player # 0
  /\ vp.backends[vp.player].status = "ready"
  /\ vp.backends[vp.player].videoId = vp.videoId

\* C36 (as stated): when the videoId of a mounted, ready player component
\* changes, the old player instance is destroyed and the component eventually
\* holds a live (non-destroyed) player instance for the new videoId (unless
\* the host removes the component first).
C36_PlayerReplacement == HoldsDestroyedPlayer ~> (HoldsLivePlayer \/ ~vp.mounted)

\* ------------------------------------------------------------------------
\* TimelineAligner
\* ------------------------------------------------------------------------
InContainer(px) == Leq(Zero, px) /\ Leq(px, FromInt(AlignerContainerWidth))

\* C37: every bar position a pointer move sets in TimelineAligner lies within
\* [0, containerWidth] whatever the pointer position, at most one bar moves
\* per pointer move, and a pointer move with no bar being dragged (before a
\* mouse-down or after a mouse-up) changes neither bar.
C37_AlignerDragClamp ==
  [][ (\E clientX \in AlignerClientXs : AlignerMouseMove(clientX)) =>
        /\ al'.wclOffset # al.wclOffset => InContainer(al'.wclOffset)
        /\ al'.videoOffset # al.videoOffset => InContainer(al'.videoOffset)
        /\ al'.wclOffset = al.wclOffset \/ al'.videoOffset = al.videoOffset
        /\ (~al.isDraggingWcl /\ ~al.isDraggingVideo) =>
              al'.wclOffset = al.wclOffset /\ al'.videoOffset = al.videoOffset ]_vars

\* the WCL bar is being dragged and stands at the right edge of the container
\* (the pointer is beyond it), and the video bar has been dragged to the left
\* edge and released
C37_Witness ==
  /\ al.mounted /\ al.isDraggingWcl /\ ~al.isDraggingVideo
  /\ al.wclOffset = FromInt(AlignerContainerWidth)
  /\ al.videoOffset = Zero /\ al.videoStartTime = ReportStart - 10 * 1000

\* ------------------------------------------------------------------------
\* Boss icons and the achievement refresh
\* ------------------------------------------------------------------------
PendingNames == { e.bossName : e \in bz.pendingBossIconRequests }
\* the runs of fetchBossIconUrl for a boss name that have not settled
InFlight(bossName) ==
  { f \in 1..Len(bz.fetches) :
      bz.fetches[f].bossName = bossName /\ bz.fetches[f].stage # "done" }
CallsWaiting == { k \in 1..Len(bz.calls) : ~bz.calls[k].returned }

\* C38: for any boss name at most one icon fetch is in flight at a time;
\* concurrent getBossIconUrl calls for the same name share the pending result;
\* the pending entry is there exactly while that fetch has not settled
\* (whether it then succeeded, returned null or failed), so the pending map is
\* empty when no request is in flight.
C38_IconRequestDedup ==
  /\ \A bossName \in BossNames :
       /\ Cardinality(InFlight(bossName)) <= 1
       /\ bossName \in PendingNames <=> InFlight(bossName) # {}
  /\ \A e \in bz.pendingBossIconRequests : e.fetch \in InFlight(e.bossName)
  /\ \A k \in 1..Len(bz.calls) :
       /\ bz.fetches[bz.calls[k].fetch].bossName = bz.calls[k].bossName
       /\ bz.calls[k].returned <=> bz.fetches[bz.calls[k].fetch].stage = "done"
       /\ bz.calls[k].result = bz.fetches[bz.calls[k].fetch].result
  /\ CallsWaiting = {} => bz.pendingBossIconRequests = {}

\* two calls for one boss name shared a fetch that ended with null, another
\* fetch ended with a URL, and nothing is pending any more
C38_Witness ==
  /\ bz.pendingBossIconRequests = {} /\ CallsWaiting = {}
  /\ \E k1, k2 \in 1..Len(bz.calls) :
       /\ k1 < k2 /\ bz.calls[k1].fetch = bz.calls[k2].fetch
       /\ bz.calls[k1].result = "null" /\ bz.calls[k2].result = "null"
  /\ \E k \in 1..Len(bz.calls) : bz.calls[k].result = "url"

\* C39 (as stated): the full achievement refresh (index fetch plus bulk
\* write) is performed at most once per UPDATE_COOLDOWN, also when several
\* boss-name lookups miss and request an update concurrently: any two
\* refreshes lie at least UPDATE_COOLDOWN apart.
C39_RefreshCooldown ==
  \A i, j \in 1..Len(bz.refreshes) :
    i < j => bz.refreshes[j].wroteAt - bz.refreshes[i].wroteAt >= UPDATE_COOLDOWN

====
